---------------------------- MODULE Spec2Model ----------------------------
(***************************************************************************)
(* A model of the dual-sided grid-trading bot GirdBot_BN:                  *)
(*   grid_strategy.py     GridStrategy (ledger, engine, event scheduler)   *)
(*   risk_manager.py      RiskManager                                      *)
(*   websocket_handler.py WebSocketHandler (feed callbacks)                *)
(*   main.py              GridTradingBot.run (start, stop)                 *)
(*                                                                         *)
(* Units.  Time is in seconds.  Prices are in price ticks (the instrument's*)
(* price precision), quantities in contracts (amount precision 0), money   *)
(* in ticks * contracts.  Ratios are written as integer fractions:         *)
(* margin_ratio in 1/1000, suggested_ratio and stop_loss_ratio in 1/100,   *)
(* GRID_SPACING in 1/1000.                                                 *)
(***************************************************************************)
EXTENDS Integers, Sequences, FiniteSets, TLC

VARIABLES
    now,        \* time.time()
    gs,         \* the GridStrategy object
    rm,         \* the RiskManager object
    ws,         \* the WebSocketHandler object
    bot,        \* the GridTradingBot object
    gateway,    \* which optional queries the exchange client object offers
    book,       \* the open orders resting at the exchange
    task,       \* the three asyncio tasks: where each is suspended
    pass,       \* the evaluation pass whose code ran in the last step (history)
    inputs,     \* how many messages and events the feeds delivered (history)
    lastEv,     \* the last order event applied to the ledger, and how many
                \* times in a row it was applied (history)
    shadow,     \* a second ledger: the ledger before the last event
                \* (SpecLedger), a ledger drifting on its own (SpecSnapshot)
    riskIn,     \* the arguments of should_reduce_position and the class
                \* check_margin_risk returned (SpecRisk)
    decision,   \* its result (SpecRisk)
    qc,         \* the QuantityCalculator object and its last call (SpecDynamic)
    cm          \* the ConnectionManager object and where connect() is (SpecConn)

vars == <<now, gs, rm, ws, bot, gateway, book, task, pass, inputs, lastEv,
          shadow, riskIn, decision, qc, cm>>

----------------------------------------------------------------------------
(* Program constants                                                       *)

INITIAL_QUANTITY == 50
ORDER_FIRST_TIME == 10
SYNC_TIME == 10
HEDGE_INIT_DELAY == 1
HEDGE_RETRY_INTERVAL == 5
HEDGE_SETTLE_WINDOW == 15
MIN_UPDATE_INTERVAL == 10
MIN_ORDER_ADJUSTMENT_INTERVAL == 15
ORDERS_SYNC_COOLDOWN == 3
FAST_SYNC_COOLDOWN == 1
FAST_MARKET_WINDOW == 10
ACCOUNT_REFRESH_INTERVAL == 60
POSITION_REFRESH_INTERVAL == 30
\* GRID_SPACING = 0.001, PRICE_CHANGE_THRESHOLD = 0.002, in 1/1000
GRID_SPACING_PM == 1
PRICE_CHANGE_THRESHOLD_PM == 2
\* QUANTITY_THRESHOLD_RATIO = 0.7, in 1/10
QUANTITY_THRESHOLD_TENTHS == 7
\* stop_loss_ratio = 0.15, in 1/100
STOP_LOSS_RATIO_PCT == 15
EXTREME_LOSS_PCT == 20
\* check_margin_risk thresholds 0.85 and 0.7, in 1/1000
MARGIN_HIGH_PM == 850
MARGIN_MEDIUM_PM == 700
\* margin_ratio = 0.5 when the balance query is missing or fails, in 1/1000
DEFAULT_MARGIN_PM == 500
\* min_notional = 5.0 (USDC) and the 10% buffer, in 1/10
MIN_NOTIONAL == 5
NOTIONAL_BUFFER_TENTHS == 11
\* exchange_client.min_order_amount
MIN_ORDER_AMOUNT == 1

----------------------------------------------------------------------------
(* Bounds of the model                                                     *)

\* the clock starts here (any value above every interval) ...
StartTime == 100
\* ... advances by this much at a time ...
TimeStep == 5
\* ... and at most this often.
MaxTicks == 2
\* the number of messages and events the feeds deliver
MaxInputs == 2
\* sizes above these are not explored
MaxAggUnits == 1
MaxPosUnits == 1
\* the exchange's limit of open orders
MaxBook == 4

----------------------------------------------------------------------------
(* Arithmetic                                                              *)

Max(a, b) == IF a >= b THEN a ELSE b
Min(a, b) == IF a <= b THEN a ELSE b
Abs(a) == IF a >= 0 THEN a ELSE 0 - a

\* Python's round(n/d) for n >= 0, d > 0: to nearest, ties to even
RoundDiv(n, d) ==
    LET q == n \div d
        r == n % d
    IN  IF 2 * r < d THEN q
        ELSE IF 2 * r > d THEN q + 1
        ELSE IF q % 2 = 0 THEN q ELSE q + 1

Sides == {"long", "short"}
Upper(side) == IF side \in {"long", "LONG"} THEN "LONG" ELSE "SHORT"

----------------------------------------------------------------------------
(* RiskManager                                                             *)

NoDecision == [should_reduce |-> FALSE, urgency |-> "NONE", suggested_ratio |-> 0,
               rule |-> "unset"]

\* position_cache[symbol], per side.  A side without cached data reads as
\* 0.0 in get_position_pnl and get_position_percentage, and is kept as zeros.
NoSideData == [unrealized_pnl |-> 0, percentage |-> 0]
NoPositionData == [long |-> NoSideData, short |-> NoSideData]

\* RiskManager.__init__
RiskManagerInit ==
    [last_balance_check |-> 0, account_balance |-> 0, available_balance |-> 0,
     margin_ratio |-> 0, position_cache |-> NoPositionData,
     last_position_update |-> 0]

\* the balances used when the balance query is missing or fails
DEFAULT_ACCOUNT_BALANCE == 1000
DEFAULT_AVAILABLE_BALANCE == 500

get_position_pnl(r, side) == r.position_cache[side].unrealized_pnl

get_position_percentage(r, side) == r.position_cache[side].percentage

\* check_margin_risk with the thresholds included in the higher class
check_margin_risk_inclusive(r) ==
    IF r.margin_ratio >= MARGIN_HIGH_PM THEN "HIGH_RISK"
    ELSE IF r.margin_ratio >= MARGIN_MEDIUM_PM THEN "MEDIUM_RISK"
    ELSE "LOW_RISK"

check_margin_risk(r) ==
    IF r.margin_ratio > MARGIN_HIGH_PM THEN "HIGH_RISK"
    ELSE IF r.margin_ratio > MARGIN_MEDIUM_PM THEN "MEDIUM_RISK"
    ELSE "LOW_RISK"

\* should_reduce_position without its early returns: every matching rule
\* updates the result and the ratios add up
should_reduce_position_cumulative(r, side, position_value) ==
    LET pnl == get_position_pnl(r, side)
        pct == get_position_percentage(r, side)
        r0 == [should_reduce |-> FALSE, urgency |-> "LOW", suggested_ratio |-> 0,
               rule |-> "none"]
        r1 == IF pnl < 0 /\ Abs(pnl) * 100 > position_value * STOP_LOSS_RATIO_PCT
              THEN [should_reduce |-> TRUE, urgency |-> "HIGH", suggested_ratio |-> 50,
                    rule |-> "stop_loss"]
              ELSE r0
        r2 == IF pct < 0 - EXTREME_LOSS_PCT
              THEN [should_reduce |-> TRUE, urgency |-> "HIGH",
                    suggested_ratio |-> r1.suggested_ratio + 30, rule |-> "extreme_loss"]
              ELSE r1
    IN  IF check_margin_risk(r) = "HIGH_RISK"
        THEN [should_reduce |-> TRUE, urgency |-> "MEDIUM",
              suggested_ratio |-> r2.suggested_ratio + 40, rule |-> "margin"]
        ELSE r2

should_reduce_position(r, side, position_value) ==
    LET pnl == get_position_pnl(r, side)
        pct == get_position_percentage(r, side)
    IN  IF pnl < 0 /\ Abs(pnl) * 100 > position_value * STOP_LOSS_RATIO_PCT
        THEN [should_reduce |-> TRUE, urgency |-> "HIGH", suggested_ratio |-> 50,
              rule |-> "stop_loss"]
        ELSE IF pct < 0 - EXTREME_LOSS_PCT
        THEN [should_reduce |-> TRUE, urgency |-> "HIGH", suggested_ratio |-> 30,
              rule |-> "extreme_loss"]
        ELSE IF check_margin_risk(r) = "HIGH_RISK"
        THEN [should_reduce |-> TRUE, urgency |-> "MEDIUM", suggested_ratio |-> 40,
              rule |-> "margin"]
        ELSE [should_reduce |-> FALSE, urgency |-> "LOW", suggested_ratio |-> 0,
              rule |-> "none"]

should_update_account_info(r, t) == t - r.last_balance_check > ACCOUNT_REFRESH_INTERVAL

should_update_position_info(r, t) == t - r.last_position_update > POSITION_REFRESH_INTERVAL

----------------------------------------------------------------------------
(* GridStrategy: construction and the position/order ledger                *)

\* price ticks per USDC: 10^price_precision of the instrument
PRICE_TICKS_PER_UNIT == 100000

EventKinds == {"rebalance_immediately", "check_price_drift"}

\* GridStrategy.__init__.  None (best_bid_price, best_ask_price) is written 0.
\* valid_orders is the list check_orders_status keeps, as the set of
\* <<position_side, side, price>> it is read for; a missing attribute reads
\* like an empty list (_check_order_prices_reasonable) and is kept as {}.
\* Fields the engine never reads back (mid/upper/lower prices, which
\* update_mid_price recomputes before each use; the API call counters, which
\* only feed log lines; last_update_times['any'/'rebalance_immediately'])
\* are not kept.
GridStrategyInit ==
    [pending_updates |-> {}, running |-> TRUE,
     latest_price |-> 0, best_bid_price |-> 0, best_ask_price |-> 0,
     long_position |-> 0, short_position |-> 0,
     long_initial_quantity |-> 0, short_initial_quantity |-> 0,
     buy_long_orders |-> 0, sell_long_orders |-> 0,
     sell_short_orders |-> 0, buy_short_orders |-> 0,
     last_long_order_time |-> 0, last_short_order_time |-> 0,
     hedge_initialization_enabled |-> TRUE,
     hedge_init_completed |-> FALSE, last_hedge_init_time |-> 0,
     last_adjustment |-> [long |-> 0, short |-> 0],
     last_check_price_drift |-> 0,
     last_grid_update_price |-> 0,
     last_orders_sync_time |-> 0, last_price_change_time |-> 0,
     valid_orders |-> {}]

\* a decrement that is not floored
Clamp0_unfloored(x) == x

\* max(0.0, x) as handle_order_update applies it
Clamp0(x) == Max(0, x)

\* the decrement of an aggregate or a position
Decrease(x, by) == Clamp0(x - by)

\* An order event o: [i, S, ps, X, q, z] (order id, side, position side,
\* status, quantity, cumulative filled quantity).
handle_order_update(g, o) ==
    LET remaining == o.q - o.z
    IN  IF o.X = "NEW" THEN
            IF o.S = "BUY" /\ o.ps = "LONG"
                THEN [g EXCEPT !.buy_long_orders = @ + remaining]
            ELSE IF o.S = "BUY" /\ o.ps = "SHORT"
                THEN [g EXCEPT !.buy_short_orders = @ + remaining]
            ELSE IF o.S = "SELL" /\ o.ps = "LONG"
                THEN [g EXCEPT !.sell_long_orders = @ + remaining]
            ELSE IF o.S = "SELL" /\ o.ps = "SHORT"
                THEN [g EXCEPT !.sell_short_orders = @ + remaining]
            ELSE g
        ELSE IF o.X = "FILLED" THEN
            IF o.S = "BUY" /\ o.ps = "LONG"
                THEN [g EXCEPT !.long_position = @ + o.z,
                               !.buy_long_orders = Decrease(@, o.z)]
            ELSE IF o.S = "BUY" /\ o.ps = "SHORT"
                THEN [g EXCEPT !.short_position = Decrease(@, o.z),
                               !.buy_short_orders = Decrease(@, o.z)]
            ELSE IF o.S = "SELL" /\ o.ps = "LONG"
                THEN [g EXCEPT !.long_position = Decrease(@, o.z),
                               !.sell_long_orders = Decrease(@, o.z)]
            ELSE IF o.S = "SELL" /\ o.ps = "SHORT"
                THEN [g EXCEPT !.short_position = @ + o.z,
                               !.sell_short_orders = Decrease(@, o.z)]
            ELSE g
        ELSE IF o.X = "CANCELED" THEN
            IF o.S = "BUY" /\ o.ps = "LONG"
                THEN [g EXCEPT !.buy_long_orders = Decrease(@, o.q)]
            ELSE IF o.S = "BUY" /\ o.ps = "SHORT"
                THEN [g EXCEPT !.buy_short_orders = Decrease(@, o.q)]
            ELSE IF o.S = "SELL" /\ o.ps = "LONG"
                THEN [g EXCEPT !.sell_long_orders = Decrease(@, o.q)]
            ELSE IF o.S = "SELL" /\ o.ps = "SHORT"
                THEN [g EXCEPT !.sell_short_orders = Decrease(@, o.q)]
            ELSE g
        ELSE g

update_positions(g, long_position, short_position) ==
    LET reset == /\ g.hedge_init_completed
                 /\ long_position = 0 /\ short_position = 0
                 /\ (g.long_position # 0 \/ g.short_position # 0)
    IN  [g EXCEPT !.hedge_init_completed = IF reset THEN FALSE ELSE @,
                  !.long_position = long_position,
                  !.short_position = short_position]

\* An open order: [side, positionSide, reduceOnly, price, remaining].
\* The number of orders with remaining > 0 in a (side, position side) bucket.
RECURSIVE OrderCount(_, _, _)
OrderCount(orders, side, ps) ==
    IF orders = << >> THEN 0
    ELSE (IF /\ Head(orders).remaining > 0
             /\ Head(orders).side = side
             /\ Head(orders).positionSide = ps
          THEN 1 ELSE 0) + OrderCount(Tail(orders), side, ps)

ValidOrders(orders) ==
    { <<orders[i].positionSide, orders[i].side, orders[i].price>> :
        i \in { j \in 1..Len(orders) : orders[j].remaining > 0 } }

\* a snapshot that leaves a bucket without open orders as it was
BucketAggregate_keep(old, count) == IF count = 0 THEN old ELSE count * INITIAL_QUANTITY

\* the aggregate check_orders_status writes for one bucket
BucketAggregate(old, count) == count * INITIAL_QUANTITY

\* check_orders_status, given the list fetch_open_orders returned
check_orders_status_with(g, orders) ==
    [g EXCEPT
        !.buy_long_orders = BucketAggregate(@, OrderCount(orders, "buy", "LONG")),
        !.sell_long_orders = BucketAggregate(@, OrderCount(orders, "sell", "LONG")),
        !.buy_short_orders = BucketAggregate(@, OrderCount(orders, "buy", "SHORT")),
        !.sell_short_orders = BucketAggregate(@, OrderCount(orders, "sell", "SHORT")),
        !.valid_orders = ValidOrders(orders)]

Aggregates(g) ==
    <<g.buy_long_orders, g.sell_long_orders, g.buy_short_orders, g.sell_short_orders>>

----------------------------------------------------------------------------
(* One evaluation pass as a computation on a machine record m:             *)
(*   gs, rm, book   the objects the pass reads and writes                  *)
(*   t              time.time() during this uninterrupted stretch of code  *)
(*   o              what the exchange answers during this stretch          *)
(*   exc            the exception in flight ("none" when there is none)    *)
(*   nf, nc, np     fetch_open_orders / cancel_order / place_order calls   *)
(*                  made so far in this stretch                            *)
(*   ret            the value the last call returned                       *)
(*   hedge          how initialize_hedge_orders left its first half        *)
(*   log, risk, emerg, bypassed, need, fault, sethedge                     *)
(*                  what the pass did so far (history of the pass): the    *)
(*                  gateway calls that changed or tried to change orders,  *)
(*                  the sides a risk review reduced, the sides             *)
(*                  need_order_update saw in the emergency state, those of *)
(*                  them still in their re-quote cooldown, the sides it    *)
(*                  answered True for, whether a gateway call raised,      *)
(*                  whether the pass set hedge_init_completed              *)
(* Code between two awaits that suspend runs without interruption, so each *)
(* stretch is one step of the model.  While an exception is in flight the  *)
(* statements that follow in the try block do not run: an operation on a   *)
(* machine with exc # "none" leaves it as it is, up to the except clause   *)
(* (Caught).                                                               *)

Machine(g, r, b, o, t, p) ==
    [gs |-> g, rm |-> r, book |-> b, o |-> o, t |-> t,
     exc |-> "none", nf |-> 0, nc |-> 0, np |-> 0, ret |-> FALSE, hedge |-> "none",
     gone |-> {},
     log |-> p.log, risk |-> p.risk, emerg |-> p.emerg, bypassed |-> p.bypassed,
     need |-> p.need, fault |-> p.fault, sethedge |-> p.sethedge,
     refreshed |-> p.refreshed]

Raise(m, e) == [m EXCEPT !.exc = e, !.fault = TRUE]
\* an except clause that lets the exception through
Caught_reraised(m) == m

Caught(m) == [m EXCEPT !.exc = "none"]
Failed(m) == m.exc # "none"

LogEntry(op, tag, side, ps, ro, type, qty, px, ok) ==
    [op |-> op, tag |-> tag, side |-> side, ps |-> ps, ro |-> ro, type |-> type,
     qty |-> qty, px |-> px, ok |-> ok]

\* ExchangeClient.fetch_open_orders: the k-th call raises when the oracle says so
FetchRaises(m) == (m.nf + 1) \in m.o.fetchFail
Fetched(m) == [m EXCEPT !.nf = @ + 1]

\* ExchangeClient.place_order.  A limit order without a price, a rejection by
\* the exchange (the oracle's choice) and a full order book all return None;
\* an accepted limit order rests in the book, a market order executes at once.
\* Price and quantity are rounded and the quantity is floored at the minimum.
place_order(m, tag, side, price, quantity, is_reduce_only, position_side, order_type) ==
    LET k == m.np + 1
        qty == Max(quantity, MIN_ORDER_AMOUNT)
        ok == /\ k \notin m.o.placeFail
              /\ order_type = "limit" => (price > 0 /\ Len(m.book) < MaxBook)
        entry == LogEntry("place", tag, side, Upper(position_side), is_reduce_only,
                          order_type, qty, price, ok)
        order == [side |-> side, positionSide |-> Upper(position_side),
                  reduceOnly |-> is_reduce_only, price |-> price, remaining |-> qty]
    IN  IF Failed(m) THEN m
        ELSE [m EXCEPT !.np = k, !.ret = ok, !.log = Append(@, entry),
                       !.book = IF ok /\ order_type = "limit" THEN Append(@, order)
                                ELSE @]

\* check_orders_status: the fetch may raise, nothing is written then
check_orders_status(m) ==
    IF Failed(m) THEN m
    ELSE IF FetchRaises(m) THEN Raise(Fetched(m), "Error")
    ELSE [Fetched(m) EXCEPT !.gs = check_orders_status_with(@, m.book)]

\* a test that takes only the opening leg for an order of the side
BelongsToSide_opening_only(order, position_side) ==
    IF position_side = "long"
    THEN ~order.reduceOnly /\ order.side = "buy" /\ order.positionSide = "LONG"
    ELSE ~order.reduceOnly /\ order.side = "sell" /\ order.positionSide = "SHORT"

\* the orders cancel_orders_for_side selects for a side
BelongsToSide(order, position_side) ==
    IF position_side = "long"
    THEN \/ (~order.reduceOnly /\ order.side = "buy" /\ order.positionSide = "LONG")
         \/ (order.reduceOnly /\ order.side = "sell" /\ order.positionSide = "LONG")
    ELSE \/ (~order.reduceOnly /\ order.side = "sell" /\ order.positionSide = "SHORT")
         \/ (order.reduceOnly /\ order.side = "buy" /\ order.positionSide = "SHORT")

RECURSIVE Without(_, _, _)
Without(orders, gone, i) ==
    IF i > Len(orders) THEN << >>
    ELSE (IF i \in gone THEN << >> ELSE <<orders[i]>>) \o Without(orders, gone, i + 1)

\* the book once the orders cancelled (or found gone) have left it
Swept(m, orders) == [m EXCEPT !.book = Without(orders, m.gone, 1), !.gone = {}]

\* The for loop of cancel_orders_for_side over the fetched list, from index i,
\* and what follows it.  cancel_order re-raises what the exchange raised.
\* The try is around the whole loop, so the first exception ends it: after
\* OrderNotFound (the order left the book in the meantime) the except clause
\* calls check_orders_status, after another error (the order stays) it logs.
\* an except clause for OrderNotFound that raises it again
OrderNotFoundCaught_reraised(m) == Raise(m, "OrderNotFound")

\* except ccxt.OrderNotFound: a warning and check_orders_status, whose fetch
\* may raise in its turn; the log keeps whether it did
OrderNotFoundCaught(m) ==
    check_orders_status(
        [m EXCEPT !.log = Append(@, LogEntry("resync", "resync", "none", "none", FALSE,
                                             "none", 0, 0, ~FetchRaises(m)))])

RECURSIVE CancelLoop(_, _, _, _)
CancelLoop(m, orders, i, position_side) ==
    IF i > Len(orders) THEN Swept(m, orders)
    ELSE IF ~BelongsToSide(orders[i], position_side)
    THEN CancelLoop(m, orders, i + 1, position_side)
    ELSE LET k == m.nc + 1
             o == orders[i]
             entry(ok) == LogEntry("cancel", "cancel", o.side, o.positionSide,
                                   o.reduceOnly, "limit", o.remaining, o.price, ok)
             gone == LogEntry("cancel", "not_found", o.side, o.positionSide,
                              o.reduceOnly, "limit", o.remaining, o.price, FALSE)
         IN  IF k \in m.o.cancelNotFound
             THEN OrderNotFoundCaught(
                      Swept([m EXCEPT !.nc = k, !.gone = @ \cup {i}, !.fault = TRUE,
                                      !.log = Append(@, gone)], orders))
             ELSE IF k \in m.o.cancelError
             THEN Swept([m EXCEPT !.nc = k, !.fault = TRUE,
                                  !.log = Append(@, entry(FALSE))], orders)
             ELSE CancelLoop([m EXCEPT !.nc = k, !.gone = @ \cup {i},
                                       !.log = Append(@, entry(TRUE))],
                             orders, i + 1, position_side)

cancel_orders_for_side(m, position_side) ==
    IF Failed(m) THEN m
    ELSE IF FetchRaises(m) THEN Raise(Fetched(m), "Error")
    ELSE CancelLoop([Fetched(m) EXCEPT !.gone = {}], m.book, 1, position_side)

----------------------------------------------------------------------------
(* Risk data refresh and the risk review                                   *)

\* update_account_info.  The query is used when the exchange client offers
\* it; o.account is what it answers: ok (or it raises) and the balances
\* totalWalletBalance and availableBalance.  Only a successful query stamps
\* last_balance_check.
update_account_info(m) ==
    IF gateway.get_account_balance /\ m.o.account.ok
    THEN LET bal == m.o.account.total
             avail == m.o.account.available
         IN  [m EXCEPT !.rm.account_balance = bal,
                       !.rm.available_balance = avail,
                       !.rm.margin_ratio =
                           IF bal > 0 THEN ((bal - avail) * 1000) \div bal ELSE 0,
                       !.rm.last_balance_check = m.t]
    ELSE [m EXCEPT !.rm.account_balance = DEFAULT_ACCOUNT_BALANCE,
                   !.rm.available_balance = DEFAULT_AVAILABLE_BALANCE,
                   !.rm.margin_ratio = DEFAULT_MARGIN_PM]

\* update_position_info.  o.positions is what get_positions answers: ok (or
\* it raises) and the per-side data.
update_position_info(m) ==
    IF gateway.get_positions /\ m.o.positions.ok
    THEN [m EXCEPT !.rm.position_cache = m.o.positions.data,
                   !.rm.last_position_update = m.t]
    ELSE m

\* the refresh an evaluation makes first: each update runs when its own
\* interval has passed since its last stamp; refreshed keeps which ones ran
RefreshAccount(m) ==
    IF should_update_account_info(m.rm, m.t)
    THEN [update_account_info(m) EXCEPT !.refreshed = @ \cup {"account"}]
    ELSE m

RefreshPositions(m) ==
    IF should_update_position_info(m.rm, m.t)
    THEN [update_position_info(m) EXCEPT !.refreshed = @ \cup {"positions"}]
    ELSE m

RefreshRiskData(m) == RefreshPositions(RefreshAccount(m))

Position(g, side) == IF side = "long" THEN g.long_position ELSE g.short_position

\* the decision for a side, as both risk reviews ask for it
RiskDecision(m, side) ==
    should_reduce_position(m.rm, side, Position(m.gs, side) * m.gs.latest_price)

Acts(decision_) == decision_.should_reduce /\ decision_.urgency \in {"HIGH", "MEDIUM"}

\* the size of the forced reduction
\* reduce_qty of a risk review on an instrument with the minimum order amount
\* the exchange reports
reduce_qty(position, suggested_ratio, min_order_amount) ==
    Max(RoundDiv(position * suggested_ratio, 100), min_order_amount)

ReduceQty(position, suggested_ratio) ==
    reduce_qty(position, suggested_ratio, MIN_ORDER_AMOUNT)

\* the market reduce-only order of a risk review
PlaceReduce(m, side) ==
    LET d == RiskDecision(m, side)
        m1 == place_order(m, "reduce", IF side = "long" THEN "sell" ELSE "buy", 0,
                          ReduceQty(Position(m.gs, side), d.suggested_ratio),
                          TRUE, Upper(side), "market")
    IN  [m1 EXCEPT !.risk = @ \cup {side}]

ReviewSide(m, side) ==
    IF Position(m.gs, side) > 0 /\ Acts(RiskDecision(m, side))
    THEN PlaceReduce(m, side) ELSE m

\* _perform_risk_checks: both sides are reviewed, and the caller continues
\* whatever the outcome.
perform_risk_checks(m) ==
    IF Failed(m) THEN m
    ELSE ReviewSide(ReviewSide(RefreshRiskData(m), "long"), "short")

----------------------------------------------------------------------------
(* Opening orders                                                          *)

LastOrderTime(g, side) ==
    IF side = "long" THEN g.last_long_order_time ELSE g.last_short_order_time

\* the side's order time is stamped when the opening order has been asked for
StampOrderTime(m, side, t) ==
    IF Failed(m) THEN m
    ELSE IF side = "long" THEN [m EXCEPT !.gs.last_long_order_time = t]
    ELSE [m EXCEPT !.gs.last_short_order_time = t]

\* the opening order of a side: buy at the best bid, sell at the best ask
OpenSide(side) == IF side = "long" THEN "buy" ELSE "sell"
CloseSide(side) == IF side = "long" THEN "sell" ELSE "buy"
OpenPrice(g, side) == IF side = "long" THEN g.best_bid_price ELSE g.best_ask_price

\* an initialization of a side that does not look at the side's cooldown
initialize_orders_uncooled(m, side) ==
    IF Failed(m) THEN m
    ELSE StampOrderTime(
             place_order(cancel_orders_for_side(m, side), "init", OpenSide(side),
                         OpenPrice(m.gs, side), INITIAL_QUANTITY, FALSE, side, "limit"),
             side, m.t)

\* initialize_long_orders / initialize_short_orders
initialize_orders(m, side) ==
    IF Failed(m) \/ m.t - LastOrderTime(m.gs, side) < ORDER_FIRST_TIME THEN m
    ELSE StampOrderTime(
             place_order(cancel_orders_for_side(m, side), "init", OpenSide(side),
                         OpenPrice(m.gs, side), INITIAL_QUANTITY, FALSE, side, "limit"),
             side, m.t)

\* initialize_hedge_orders up to its await: "refused" (a side's cooldown has
\* not elapsed), "failed" (a cancel raised: the except clause returns False)
\* or "sleep" (suspended in asyncio.sleep(hedge_init_delay)).
HedgeCanInit(g, t) ==
    /\ t - g.last_long_order_time >= ORDER_FIRST_TIME
    /\ t - g.last_short_order_time >= ORDER_FIRST_TIME

HedgeCancelled(m) ==
    IF Failed(m) THEN [Caught(m) EXCEPT !.hedge = "failed", !.ret = FALSE]
    ELSE [m EXCEPT !.hedge = "sleep"]

initialize_hedge_orders_begin(m) ==
    IF ~HedgeCanInit(m.gs, m.t) THEN [m EXCEPT !.hedge = "refused", !.ret = FALSE]
    ELSE HedgeCancelled(cancel_orders_for_side(cancel_orders_for_side(m, "long"),
                                               "short"))

\* the second half of initialize_hedge_orders, content with either order
initialize_hedge_orders_end_either(m) ==
    LET m1 == place_order(m, "hedge", "buy", m.gs.best_bid_price, INITIAL_QUANTITY,
                          FALSE, "long", "limit")
        m2 == place_order(m1, "hedge", "sell", m.gs.best_ask_price, INITIAL_QUANTITY,
                          FALSE, "short", "limit")
    IN  [m2 EXCEPT !.gs.last_long_order_time = m.t,
                   !.gs.last_short_order_time = m.t,
                   !.ret = m1.ret \/ m2.ret]

\* initialize_hedge_orders after the await: both opening orders, the stamps,
\* and True exactly when both orders were returned.
initialize_hedge_orders_end(m) ==
    LET m1 == place_order(m, "hedge", "buy", m.gs.best_bid_price, INITIAL_QUANTITY,
                          FALSE, "long", "limit")
        m2 == place_order(m1, "hedge", "sell", m.gs.best_ask_price, INITIAL_QUANTITY,
                          FALSE, "short", "limit")
    IN  [m2 EXCEPT !.gs.last_long_order_time = m.t,
                   !.gs.last_short_order_time = m.t,
                   !.ret = m1.ret /\ m2.ret]

----------------------------------------------------------------------------
(* Re-quoting a side                                                       *)

\* round(price * (1 +- GRID_SPACING), price_precision)
UpperPrice(price) == RoundDiv(price * (1000 + GRID_SPACING_PM), 1000)
LowerPrice(price) == RoundDiv(price * (1000 - GRID_SPACING_PM), 1000)

\* max(base_quantity, min_notional / latest_price * 1.1), rounded to the
\* amount precision as place_take_profit_order and place_order round it;
\* latest_price > 0
SafeQuantity(base_quantity, latest_price) ==
    LET num == MIN_NOTIONAL * NOTIONAL_BUFFER_TENTHS * PRICE_TICKS_PER_UNIT
        den == 10 * latest_price
    IN  IF base_quantity * den >= num THEN base_quantity ELSE RoundDiv(num, den)

\* get_final_quantity: the fixed quantity, remembered as the side's target
get_final_quantity(g, side) ==
    IF side = "long" THEN [g EXCEPT !.long_initial_quantity = INITIAL_QUANTITY]
    ELSE [g EXCEPT !.short_initial_quantity = INITIAL_QUANTITY]

\* place_take_profit_order: skipped when an order of the same side and price
\* rests already, or without a position
place_take_profit_order(m, side, price, quantity) ==
    IF Failed(m) THEN m
    ELSE IF FetchRaises(m) THEN Raise(Fetched(m), "Error")
    ELSE LET same == \E i \in 1..Len(m.book) :
                        /\ m.book[i].positionSide = Upper(side)
                        /\ m.book[i].price = price
                        /\ m.book[i].side = CloseSide(side)
         IN  IF same \/ Position(m.gs, side) <= 0 THEN Fetched(m)
             ELSE place_order(Fetched(m), "take_profit", CloseSide(side), price,
                              quantity, TRUE, Upper(side), "limit")

\* the prices of a side's take-profit order and of its re-entry order
TakeProfitPrice(side, latest_price) ==
    IF side = "long" THEN UpperPrice(latest_price) ELSE LowerPrice(latest_price)
ReentryPrice(side, latest_price) ==
    IF side = "long" THEN LowerPrice(latest_price) ELSE UpperPrice(latest_price)

\* place_long_orders / place_short_orders once the side's orders are cancelled
Quote(m, side, latest_price) ==
    IF Failed(m) THEN m
    ELSE IF Position(m.gs, side) > 0
    THEN IF latest_price = 0 THEN [m EXCEPT !.gs = get_final_quantity(@, side)]
         ELSE place_order(
                  place_take_profit_order(
                      [m EXCEPT !.gs = get_final_quantity(@, side)], side,
                      TakeProfitPrice(side, latest_price),
                      SafeQuantity(INITIAL_QUANTITY, latest_price)),
                  "reentry", OpenSide(side), ReentryPrice(side, latest_price),
                  SafeQuantity(INITIAL_QUANTITY, latest_price), FALSE, side, "limit")
    ELSE IF latest_price = 0 THEN m
    ELSE place_order(m, "open", OpenSide(side), ReentryPrice(side, latest_price),
                     SafeQuantity(INITIAL_QUANTITY, latest_price), FALSE, side, "limit")

\* a re-quote that places the new orders first and cancels afterwards
place_orders_quote_first(m, side, latest_price) ==
    IF Failed(m) THEN m
    ELSE Caught(cancel_orders_for_side(Quote(m, side, latest_price), side))

\* place_long_orders / place_short_orders: everything is inside one try, so
\* an exception (a failed fetch, a division by a zero price) ends the
\* re-quote where it is and is logged.
place_orders(m, side, latest_price) ==
    IF Failed(m) THEN m
    ELSE Caught(Quote(cancel_orders_for_side(m, side), side, latest_price))

InitialQuantity(g, side) ==
    IF side = "long" THEN g.long_initial_quantity ELSE g.short_initial_quantity
\* the resting take-profit and re-entry aggregates of a side
TakeProfitOrders(g, side) ==
    IF side = "long" THEN g.sell_long_orders ELSE g.buy_short_orders
ReentryOrders(g, side) ==
    IF side = "long" THEN g.buy_long_orders ELSE g.sell_short_orders

\* _check_quantity_missing
check_quantity_missing(g, side) ==
    \/ ReentryOrders(g, side) * 10 < InitialQuantity(g, side) * QUANTITY_THRESHOLD_TENTHS
    \/ TakeProfitOrders(g, side) * 10 < InitialQuantity(g, side) * QUANTITY_THRESHOLD_TENTHS

SideOrders(g, side) == { v \in g.valid_orders : v[1] = Upper(side) }

\* _check_order_prices_reasonable divides by the expected price: with a zero
\* current price and an order of the side to look at, it raises
PriceCheckRaises(g, side, current_price) ==
    current_price = 0 /\ SideOrders(g, side) # {}

\* |order_price - expected| / expected <= GRID_SPACING, expected = price*(1 -+ GRID_SPACING)
NearExpected(order_price, current_price, factor_pm) ==
    Abs(order_price * 1000 - current_price * factor_pm) * 1000
        <= GRID_SPACING_PM * current_price * factor_pm

check_order_prices_reasonable(g, side, current_price) ==
    /\ \E v \in SideOrders(g, side) :
          v[2] = "buy" /\ NearExpected(v[3], current_price, 1000 - GRID_SPACING_PM)
    /\ \E v \in SideOrders(g, side) :
          v[2] = "sell" /\ NearExpected(v[3], current_price, 1000 + GRID_SPACING_PM)

\* _is_emergency_missing_orders: a position without any take-profit order
is_emergency_missing_orders(g, side) ==
    Position(g, side) > 0 /\ TakeProfitOrders(g, side) = 0

\* a need_order_update that never skips the re-quote cooldown
BypassesCooldown_never(g, side) == FALSE

\* whether need_order_update skips the re-quote cooldown
BypassesCooldown(g, side) == is_emergency_missing_orders(g, side)

\* need_order_update: the answer is left in ret; a True answer stamps the
\* side's adjustment time.  An exception inside answers False.
need_order_update(m, side, current_price) ==
    LET g == m.gs
        cooling == m.t - g.last_adjustment[side] < MIN_ORDER_ADJUSTMENT_INTERVAL
        emergency == is_emergency_missing_orders(g, side)
        m0 == [m EXCEPT !.emerg = IF emergency THEN @ \cup {side} ELSE @,
                        !.bypassed = IF emergency /\ cooling THEN @ \cup {side} ELSE @]
        need == IF BypassesCooldown(g, side) THEN TRUE
                ELSE /\ ~cooling
                     /\ \/ check_quantity_missing(g, side)
                        \/ ~check_order_prices_reasonable(g, side, current_price)
    IN  IF PriceCheckRaises(g, side, current_price) THEN [m0 EXCEPT !.ret = FALSE]
        ELSE IF need
        THEN [m0 EXCEPT !.ret = TRUE, !.need = @ \cup {side},
                        !.gs.last_adjustment[side] = m.t]
        ELSE [m0 EXCEPT !.ret = FALSE]

\* should_sync_orders: the order-sync cooldown, shorter in a fast market
should_sync_orders(g, t) ==
    LET cooldown == IF t - g.last_price_change_time <= FAST_MARKET_WINDOW
                    THEN FAST_SYNC_COOLDOWN ELSE ORDERS_SYNC_COOLDOWN
    IN  t - g.last_orders_sync_time >= cooldown

----------------------------------------------------------------------------
(* adjust_grid_strategy, the pass the ticker handler runs                  *)

\* orders_valid of adjust_grid_strategy: True when the side has to be re-quoted
OrdersValid(g, side) ==
    \/ ~(0 < ReentryOrders(g, side) /\ ReentryOrders(g, side) <= InitialQuantity(g, side))
    \/ ~(0 < TakeProfitOrders(g, side)
           /\ TakeProfitOrders(g, side) <= InitialQuantity(g, side))

\* within the settle window after a completed hedge initialization a side
\* without a position makes adjust_grid_strategy return
SettleReturn(g, side, t) ==
    /\ Position(g, side) = 0
    /\ g.hedge_init_completed
    /\ t - g.last_hedge_init_time < HEDGE_SETTLE_WINDOW

\* the order synchronisation of a side block is through: the side is
\* re-quoted when its orders are still not as they should be
Resynced(m, side, t) ==
    IF Failed(m) THEN m
    ELSE IF OrdersValid(m.gs, side)
    THEN place_orders([m EXCEPT !.gs.last_orders_sync_time = t], side, m.gs.latest_price)
    ELSE [m EXCEPT !.gs.last_orders_sync_time = t]

\* the long or the short block of adjust_grid_strategy; an exception leaves
\* adjust_grid_strategy, and so does the settle check of the side
AdjustSide(m, side) ==
    IF Failed(m) \/ SettleReturn(m.gs, side, m.t) THEN m
    ELSE IF Position(m.gs, side) = 0 THEN initialize_orders(m, side)
    ELSE IF ~OrdersValid(m.gs, side) THEN m
    ELSE IF ~should_sync_orders(m.gs, m.t) THEN place_orders(m, side, m.gs.latest_price)
    ELSE Resynced(check_orders_status(m), side, m.t)

\* what follows hedge_success = await initialize_hedge_orders(): the time of
\* the attempt, and the flag when both orders were placed.  A pass suspended
\* in the settle delay is not there yet.
HedgeReturned(m, current_time) ==
    IF m.hedge = "sleep" THEN m
    ELSE [m EXCEPT !.gs.last_hedge_init_time = current_time,
                   !.gs.hedge_init_completed = IF m.ret THEN TRUE ELSE @,
                   !.sethedge = m.ret]

\* the two side blocks, which adjust_grid_strategy does not reach when it is
\* suspended or when the hedge initialization has just succeeded
AdjustTail(m) ==
    IF m.hedge = "sleep" \/ m.sethedge \/ SettleReturn(m.gs, "long", m.t) THEN m
    ELSE AdjustSide(AdjustSide(m, "long"), "short")

\* adjust_grid_strategy once the risk data are fresh
AdjustReviewed(m) ==
    IF m.gs.long_position > 0 /\ Acts(RiskDecision(m, "long"))
    THEN PlaceReduce(m, "long")
    ELSE IF m.gs.short_position > 0 /\ Acts(RiskDecision(m, "short"))
    THEN PlaceReduce(m, "short")
    ELSE IF /\ m.gs.hedge_initialization_enabled
            /\ m.gs.long_position = 0 /\ m.gs.short_position = 0
            /\ ~m.gs.hedge_init_completed
    THEN IF m.t - m.gs.last_hedge_init_time >= HEDGE_RETRY_INTERVAL
         THEN AdjustTail(HedgeReturned(initialize_hedge_orders_begin(m), m.t))
         ELSE m
    ELSE AdjustTail(m)

\* adjust_grid_strategy up to its first suspension (hedge = "sleep") or its end
adjust_grid_strategy_begin(m) == AdjustReviewed(RefreshRiskData(m))

\* adjust_grid_strategy from the end of the settle delay; current_time is the
\* time read before the delay
adjust_grid_strategy_resume(m, current_time) ==
    AdjustTail(HedgeReturned(initialize_hedge_orders_end(m), current_time))

----------------------------------------------------------------------------
(* The two handlers of the scheduler loop                                  *)

\* a drift check that a change of exactly GRID_UPDATE_THRESHOLD passes already
has_price_drift_exceeded_threshold_inclusive(m) ==
    IF m.gs.last_grid_update_price <= 0
    THEN [m EXCEPT !.gs.last_grid_update_price = m.gs.latest_price, !.ret = TRUE]
    ELSE [m EXCEPT !.ret =
            Abs(m.gs.latest_price - m.gs.last_grid_update_price) * 1000
                >= 2 * GRID_SPACING_PM * m.gs.last_grid_update_price]

\* has_price_drift_exceeded_threshold: the answer is left in ret; without a
\* baseline the latest price becomes the baseline
has_price_drift_exceeded_threshold(m) ==
    IF m.gs.last_grid_update_price <= 0
    THEN [m EXCEPT !.gs.last_grid_update_price = m.gs.latest_price, !.ret = TRUE]
    ELSE [m EXCEPT !.ret =
            Abs(m.gs.latest_price - m.gs.last_grid_update_price) * 1000
                > 2 * GRID_SPACING_PM * m.gs.last_grid_update_price]

\* how both handlers end.  The except clause logs an exception; otherwise
\* they write the price baseline (init path only) and, for the drift check,
\* the time of the check
Stamped(m, kind, current_time, baseline) ==
    IF Failed(m) THEN Caught(m)
    ELSE [m EXCEPT !.gs.last_grid_update_price =
                       IF baseline THEN m.gs.latest_price ELSE @,
                   !.gs.last_check_price_drift =
                       IF kind = "check_price_drift" THEN current_time ELSE @]

\* a side without a position gets its opening order
InitIfFlat(m, side) ==
    IF Failed(m) THEN m
    ELSE IF Position(m.gs, side) = 0 THEN initialize_orders(m, side)
    ELSE m

\* the rest of the init path: suspended in the settle delay it is not
\* reached yet; after a hedge initialization that succeeded nothing is left
\* but the stamps; otherwise each side without a position is initialized
HandlerSingles(m, kind, current_time) ==
    IF m.hedge = "sleep" THEN m
    ELSE IF m.sethedge THEN Stamped(m, kind, current_time, TRUE)
    ELSE Stamped(InitIfFlat(InitIfFlat(m, "long"), "short"), kind, current_time, TRUE)

\* the re-quote of a side need_order_update asked for
Requote(m, side) ==
    [place_orders(m, side, m.gs.latest_price) EXCEPT
        !.gs.last_grid_update_price = m.gs.latest_price]

\* need_long_update / need_short_update: need_order_update is asked for a
\* side with a position, and its True answer is kept in need
NeedSide(m, side) ==
    IF Failed(m) \/ Position(m.gs, side) = 0 THEN m
    ELSE need_order_update(m, side, m.gs.latest_price)

\* the orders of a side: re-quoted when need_order_update asked for it,
\* opened when there is no position
ActSide(m, side) ==
    IF Failed(m) THEN m
    ELSE IF side \in m.need THEN Requote(m, side)
    ELSE InitIfFlat(m, side)

\* _handle_immediate_rebalance with a position: the long side, then the
\* short side; the except clause logs an exception
RebalanceSides(m) ==
    Caught(ActSide(NeedSide(ActSide(NeedSide(m, "long"), "long"), "short"), "short"))

\* _handle_price_drift_check past the drift threshold (ret): both answers
\* first, then the orders
DriftSides(m, current_time) ==
    IF ~m.ret THEN m
    ELSE Stamped(ActSide(ActSide(NeedSide(NeedSide(m, "long"), "short"), "long"),
                         "short"),
                 "check_price_drift", current_time, FALSE)

\* the init path both handlers share, up to the suspension or the end
HandlerInit(m, kind, current_time) ==
    IF m.t - m.gs.last_hedge_init_time >= HEDGE_RETRY_INTERVAL
    THEN HandlerSingles(HedgeReturned(initialize_hedge_orders_begin(m), current_time),
                        kind, current_time)
    ELSE HandlerSingles(m, kind, current_time)

\* a handler that, resumed, takes its kind out of the pending set at its end
HandlerResume_clears(m, kind, current_time) ==
    [HandlerSingles(HedgeReturned(initialize_hedge_orders_end(m), current_time),
                    kind, current_time)
     EXCEPT !.gs.pending_updates = @ \ {kind}]

\* a handler from the end of the settle delay
HandlerResume(m, kind, current_time) ==
    HandlerSingles(HedgeReturned(initialize_hedge_orders_end(m), current_time),
                   kind, current_time)

\* a drift check within MIN_UPDATE_INTERVAL of the last one returns at once
Throttled(g, kind, t) ==
    kind = "check_price_drift" /\ t - g.last_check_price_drift < MIN_UPDATE_INTERVAL

\* a handler past its risk review: the init path without any position, the
\* sides otherwise; the except clause logs an exception
HandlerBody(m, kind, current_time) ==
    IF Failed(m) THEN Caught(m)
    ELSE IF m.gs.long_position = 0 /\ m.gs.short_position = 0
    THEN HandlerInit(m, kind, current_time)
    ELSE IF kind = "rebalance_immediately" THEN RebalanceSides(m)
    ELSE DriftSides(has_price_drift_exceeded_threshold(m), current_time)

\* an immediate rebalance that takes every kind out of the pending set
handle_immediate_rebalance_clears(m) ==
    HandlerBody(
        perform_risk_checks(check_orders_status([m EXCEPT !.gs.pending_updates = {}])),
        "rebalance_immediately", m.t)

\* _handle_immediate_rebalance up to its first suspension or its end
handle_immediate_rebalance(m) ==
    HandlerBody(
        perform_risk_checks(
            check_orders_status(
                [m EXCEPT !.gs.pending_updates = @ \ {"rebalance_immediately"}])),
        "rebalance_immediately", m.t)

\* _handle_price_drift_check up to its first suspension or its end
handle_price_drift_check(m) ==
    IF Throttled(m.gs, "check_price_drift", m.t)
    THEN [m EXCEPT !.gs.pending_updates = @ \ {"check_price_drift"}]
    ELSE HandlerBody(
             perform_risk_checks(
                 [m EXCEPT !.gs.pending_updates = @ \ {"check_price_drift"}]),
             "check_price_drift", m.t)

Handle(m, kind) ==
    IF kind = "rebalance_immediately" THEN handle_immediate_rebalance(m)
    ELSE handle_price_drift_check(m)

----------------------------------------------------------------------------
(* The ticker path of the WebSocket handler                                *)

\* GridStrategy.update_prices at time t
update_prices(g, latest_price, best_bid_price, best_ask_price, t) ==
    LET fast == /\ g.latest_price > 0
                /\ Abs(latest_price - g.latest_price) * 1000
                       >= PRICE_CHANGE_THRESHOLD_PM * g.latest_price
    IN  [g EXCEPT !.last_price_change_time = IF fast THEN t ELSE @,
                  !.latest_price = latest_price,
                  !.best_bid_price = best_bid_price,
                  !.best_ask_price = best_ask_price]

\* WebSocketHandler.__init__ (its copies of the prices are never read back)
WebSocketHandlerInit ==
    [last_ticker_update_time |-> 0, last_position_update_time |-> 0,
     last_orders_update_time |-> 0]

\* handle_ticker_update returns at once within half a second of the last one
TickerThrottled(w, t) == 2 * (t - w.last_ticker_update_time) < 1

PositionSyncDue(w, t) == t - w.last_position_update_time > SYNC_TIME
OrdersSyncDue(w, t) == t - w.last_orders_update_time > SYNC_TIME

\* sync_positions_and_orders on the strategy: the positions get_position
\* reports, then the open orders; a failed fetch raises
sync_positions_and_orders(m, w, long_position, short_position) ==
    IF OrdersSyncDue(w, m.t)
    THEN check_orders_status(
             [m EXCEPT !.gs = IF PositionSyncDue(w, m.t)
                              THEN update_positions(@, long_position, short_position)
                              ELSE @])
    ELSE [m EXCEPT !.gs = IF PositionSyncDue(w, m.t)
                          THEN update_positions(@, long_position, short_position)
                          ELSE @]

\* the times handle_ticker_update and sync_positions_and_orders stamp at time
\* t; the time of the order synchronisation only when its fetch succeeded
SyncStamped(w, t, fetched) ==
    [w EXCEPT !.last_ticker_update_time = t,
              !.last_position_update_time = IF PositionSyncDue(w, t) THEN t ELSE @,
              !.last_orders_update_time =
                  IF fetched /\ OrdersSyncDue(w, t) THEN t ELSE @]

----------------------------------------------------------------------------
(* What the environment may answer or send                                 *)

\* best bid and best ask of a bookTicker message
Quotes == { <<11990, 12010>> }
MidPrice(q) == (q[1] + q[2]) \div 2

\* the prices on_price_update is called with: the mid price of the quote, a
\* price exactly 0.2% above it and a price 0.25% above it
FeedPrices == { 12000, 12024, 12030 }

\* what get_position reports when run() starts: the clean-up of the account
\* before it may have been incomplete
StartPositions == { 0, INITIAL_QUANTITY }

\* position sizes get_position reports
PositionInputs == { k * INITIAL_QUANTITY : k \in 0..MaxPosUnits }

\* gateway calls that fail during one uninterrupted stretch of code
NoFault == [fetchFail |-> {}, cancelNotFound |-> {}, cancelError |-> {}, placeFail |-> {}]
Faults ==
    { NoFault,
      [NoFault EXCEPT !.fetchFail = {1}],
      [NoFault EXCEPT !.cancelNotFound = {1}], [NoFault EXCEPT !.cancelError = {1}],
      [NoFault EXCEPT !.cancelNotFound = {1}, !.fetchFail = {2}],
      [NoFault EXCEPT !.placeFail = {1}], [NoFault EXCEPT !.placeFail = {2}] }

\* answers of get_account_balance: it raises, or a margin ratio of 0.9
AccountAnswers ==
    { [ok |-> FALSE, total |-> 0, available |-> 0],
      [ok |-> TRUE, total |-> 1000, available |-> 100] }

\* answers of get_positions: no loss, or a long loss of a quarter of the
\* value of 50 contracts
PositionAnswers ==
    { [ok |-> TRUE, data |-> NoPositionData],
      [ok |-> TRUE, data |-> [NoPositionData EXCEPT !.long.unrealized_pnl = 0 - 150000]] }

\* the answers that can matter to a stretch of code starting at time t
AccountAnswersAt(t) ==
    IF gateway.get_account_balance /\ should_update_account_info(rm, t)
    THEN AccountAnswers ELSE { [ok |-> FALSE, total |-> 0, available |-> 0] }

PositionAnswersAt(t) ==
    IF gateway.get_positions /\ should_update_position_info(rm, t)
    THEN PositionAnswers ELSE { [ok |-> FALSE, data |-> NoPositionData] }

OraclesAt(t) ==
    { [fetchFail |-> f.fetchFail, cancelNotFound |-> f.cancelNotFound,
       cancelError |-> f.cancelError, placeFail |-> f.placeFail,
       account |-> a, positions |-> p] :
        f \in Faults, a \in AccountAnswersAt(t), p \in PositionAnswersAt(t) }

\* ORDER_TRADE_UPDATE events of the symbol the running bot is sent: the fill
\* of a long opening order and of a long take-profit order
FillEvents ==
    { [i |-> 1, S |-> S, ps |-> "LONG", X |-> "FILLED", q |-> INITIAL_QUANTITY,
       z |-> INITIAL_QUANTITY] : S \in {"BUY", "SELL"} }

\* ORDER_TRADE_UPDATE events of the symbol
OrderEvents ==
    { [i |-> 1, S |-> S, ps |-> ps, X |-> X, q |-> INITIAL_QUANTITY, z |-> z] :
        S \in {"BUY", "SELL"}, ps \in {"LONG", "SHORT"},
        X \in {"NEW", "FILLED", "CANCELED"}, z \in {0, INITIAL_QUANTITY} }

----------------------------------------------------------------------------
(* Evaluation passes as history                                            *)

\* the state Scenario A starts from
HedgeEntry(g, t) ==
    /\ g.long_position = 0 /\ g.short_position = 0
    /\ g.hedge_initialization_enabled /\ ~g.hedge_init_completed
    /\ t - g.last_hedge_init_time >= HEDGE_RETRY_INTERVAL
    /\ HedgeCanInit(g, t)

\* A pass: the task that runs it, its kind, whether it is suspended in the
\* settle delay (active), the state it was entered in (entry: Scenario A),
\* and what it did in its last stretch of code.  Before the settle delay a
\* pass places nothing, so the orders of a finished pass are all in log.
NoPass ==
    [task |-> "none", kind |-> "none", active |-> FALSE, entry |-> FALSE,
     throttled |-> FALSE,
     log |-> << >>, risk |-> {}, emerg |-> {}, bypassed |-> {}, need |-> {},
     fault |-> FALSE, sethedge |-> FALSE, refreshed |-> {}, hedge |-> "none"]

FreshPass(tid, kind, entry) ==
    [NoPass EXCEPT !.task = tid, !.kind = kind, !.active = TRUE, !.entry = entry]

\* what a suspended pass keeps: its kind, its current_time, how it was entered
\* and whether a gateway call of it raised
NotSuspended == [kind |-> "none", current_time |-> 0, entry |-> FALSE, fault |-> FALSE]

ResumedPass(tid, susp) ==
    [FreshPass(tid, susp.kind, susp.entry) EXCEPT !.fault = susp.fault]

\* A stretch of the code of pass p, begun at time t, left the machine m:
\* the pass after it (still in progress when suspended) and what the task
\* keeps while it is suspended
Outcome(p, m, t) ==
    [m |-> m,
     pass |-> [p EXCEPT !.active = (m.hedge = "sleep"), !.log = m.log,
                        !.risk = m.risk, !.emerg = m.emerg,
                        !.bypassed = m.bypassed, !.need = m.need,
                        !.fault = m.fault, !.sethedge = m.sethedge,
                        !.refreshed = m.refreshed, !.hedge = m.hedge],
     susp |-> IF m.hedge = "sleep"
              THEN [kind |-> p.kind, current_time |-> t, entry |-> p.entry,
                    fault |-> m.fault]
              ELSE NotSuspended]

----------------------------------------------------------------------------
(* The running bot: the WebSocket task, the scheduler task and run()       *)

\* ExchangeClient offers neither get_account_balance nor get_positions;
\* RiskManager also works with a client that offers them
WiredGateway == [get_account_balance |-> FALSE, get_positions |-> FALSE]
Gateways == { WiredGateway, [get_account_balance |-> TRUE, get_positions |-> TRUE] }

NoEvent == [i |-> 0, S |-> "NONE", ps |-> "NONE", X |-> "NONE", q |-> 0, z |-> 0]

\* GridTradingBot after construction; cleanups lists the runs of
\* cleanup_account that graceful_shutdown started ("raised": it raised)
BotInit == [stop_signal |-> FALSE, cleanup_completed |-> FALSE, cleanups |-> << >>]

\* pc: where the task waits; susp: the pass it is suspended in; woke: the
\* events that were pending when the scheduler loop woke last (history)
TaskInit ==
    [ws |-> [pc |-> "unborn", susp |-> NotSuspended],
     sched |-> [pc |-> "unborn", susp |-> NotSuspended, woke |-> {}],
     run |-> [pc |-> "init", susp |-> NotSuspended]]

NoLastEvent == [o |-> NoEvent, n |-> 0]
NoRiskInput == [side |-> "long", position_value |-> 0, margin_risk |-> "unset"]

\* the variables that only the small specifications below use
\* QuantityCalculator.__init__; price, returned and path describe the last
\* call of calculate_optimal_quantity (none yet)
QuantityCalculatorInit ==
    [last_calculation_time |-> 0, cached_quantity |-> 50,
     price |-> 0, returned |-> 0, path |-> "none"]

\* ConnectionManager.__init__
INITIAL_RETRY_DELAY == 5
MAX_RETRY_DELAY == 60
RETRY_MULTIPLIER == 2
MAX_RETRIES == 10
HEARTBEAT_INTERVAL == 30
HEALTH_CHECK_TIMEOUT == 60

\* ConnectionManager.__init__.  connect, message_loop and health_check_loop
\* say where the three coroutines are (none runs yet), deadline and wake when
\* recv() times out and when the health check wakes; attempts counts the
\* calls of websockets.connect and opens those that led to a running
\* connection, lost is when the last attempt failed or the
\* last connection was lost and waited the time from then to the last call
ConnectionManagerInit ==
    [state |-> "DISCONNECTED", stop_signal |-> FALSE,
     current_retry_delay |-> INITIAL_RETRY_DELAY, retry_count |-> 0,
     last_message_time |-> StartTime, last_heartbeat_time |-> StartTime,
     connection_start_time |-> 0,
     connect |-> "loop", message_loop |-> "none", health_check_loop |-> "none",
     deadline |-> 0, wake |-> 0, attempts |-> 0, opens |-> 0, lost |-> StartTime,
     waited |-> 0]

Unused ==
    /\ lastEv = NoLastEvent /\ shadow = GridStrategyInit
    /\ riskIn = NoRiskInput /\ decision = NoDecision
    /\ qc = QuantityCalculatorInit
    /\ cm = ConnectionManagerInit

Init ==
    /\ now = StartTime
    /\ gs = GridStrategyInit
    /\ rm = RiskManagerInit
    /\ ws = WebSocketHandlerInit
    /\ bot = BotInit
    /\ gateway \in Gateways
    /\ book = << >>
    /\ task = TaskInit
    /\ pass = NoPass
    /\ inputs = 0
    /\ Unused

\* the bot as main.py wires it: the gateway is ExchangeClient
InitFair == Init /\ gateway = WiredGateway

\* between the handlers shutdown() runs back to back no other task can run
Exclusive == task.run.pc = "shutdown"

\* main() is through: the program has ended
Exited == task.run.pc = "exited"

\* the feeds deliver one more message or event
Delivered == ~Exclusive /\ ~Exited /\ inputs < MaxInputs /\ inputs' = inputs + 1

Commit(m) == gs' = m.gs /\ rm' = m.rm /\ book' = m.book

\* the ledger sizes the model follows
WithinBounds(g) ==
    /\ g.long_position <= MaxPosUnits * INITIAL_QUANTITY
    /\ g.short_position <= MaxPosUnits * INITIAL_QUANTITY
    /\ \A i \in 1..4 : Aggregates(g)[i] <= MaxAggUnits * INITIAL_QUANTITY

\* time passes
Tick ==
    /\ ~Exclusive /\ ~Exited
    /\ now < StartTime + MaxTicks * TimeStep
    /\ now' = now + TimeStep
    /\ pass' = NoPass
    /\ UNCHANGED <<gs, rm, ws, bot, gateway, book, task, inputs, lastEv, shadow,
                   riskIn, decision, qc, cm>>

\* run() up to the creation of the two tasks: the account was cleaned, the
\* positions and the open orders are read once.  These lines are outside the
\* try of run(): when one of their gateway calls raises, run() raises.
RunStart ==
    /\ task.run.pc = "init"
    /\ \/ /\ \E long_position \in StartPositions, short_position \in StartPositions :
                gs' = check_orders_status_with(
                          update_positions(gs, long_position, short_position), book)
          /\ task' = [task EXCEPT !.run.pc = "monitor", !.ws.pc = "recv",
                                  !.sched.pc = "sleep"]
       \/ /\ task' = [task EXCEPT !.run.pc = "raised"]
          /\ UNCHANGED gs
    /\ pass' = NoPass
    /\ UNCHANGED <<now, rm, ws, bot, gateway, book, inputs, lastEv, shadow,
                   riskIn, decision, qc, cm>>

\* _message_loop looks at the stop signal, which the signal handler passes on
\* to the connection manager, when a message has been handled: the message
\* it was waiting for when the signal came is still handled
AfterMessage == IF bot.stop_signal THEN "closed" ELSE "recv"

\* the end of _on_message: its except clause logs what the handling of the
\* message raised; an exception nothing catches ends _message_loop
MessageEnd(m) == IF Failed(Caught(m)) THEN "raised" ELSE AfterMessage

\* _on_message with a bookTicker message: handle_ticker_update up to the
\* first suspension of adjust_grid_strategy or to its end.  Exceptions end
\* the handler and are logged by _on_message.
WsTicker ==
    /\ Delivered
    /\ task.ws.pc = "recv"
    /\ \E q \in Quotes, o \in OraclesAt(now),
          long_position \in (IF PositionSyncDue(ws, now) THEN PositionInputs ELSE {0}),
          short_position \in (IF PositionSyncDue(ws, now) THEN PositionInputs ELSE {0}) :
          IF TickerThrottled(ws, now)
          THEN /\ pass' = NoPass
               /\ task' = [task EXCEPT !.ws.pc = AfterMessage]
               /\ UNCHANGED <<gs, rm, ws, book>>
          ELSE \E m1 \in { sync_positions_and_orders(
                                Machine(update_prices(gs, MidPrice(q), q[1], q[2], now),
                                        rm, book, o, now, NoPass),
                                ws, long_position, short_position) } :
                  IF Failed(m1)
                  THEN /\ ws' = SyncStamped(ws, now, FALSE)
                       /\ gs' = m1.gs
                       /\ pass' = NoPass
                       /\ task' = [task EXCEPT !.ws.pc = MessageEnd(m1)]
                       /\ UNCHANGED <<rm, book>>
                  ELSE \E r \in { Outcome(FreshPass("ws", "adjust", HedgeEntry(m1.gs, now)),
                                          adjust_grid_strategy_begin(m1), now) } :
                          /\ ws' = SyncStamped(ws, now, TRUE)
                          /\ Commit(r.m)
                          /\ pass' = r.pass
                          /\ task' = [task EXCEPT
                                        !.ws.pc = IF r.pass.active THEN "hedge_sleep"
                                                  ELSE MessageEnd(r.m),
                                        !.ws.susp = r.susp]
    /\ UNCHANGED <<now, bot, gateway, lastEv, shadow, riskIn, decision, qc, cm>>

\* the ticker handler's adjust_grid_strategy after the settle delay
WsTickerResume ==
    /\ ~Exclusive
    /\ task.ws.pc = "hedge_sleep"
    /\ \E o \in OraclesAt(now) :
          \E r \in { Outcome(ResumedPass("ws", task.ws.susp),
                             adjust_grid_strategy_resume(
                                 Machine(gs, rm, book, o, now,
                                         ResumedPass("ws", task.ws.susp)),
                                 task.ws.susp.current_time),
                             now) } :
              /\ Commit(r.m)
              /\ pass' = r.pass
              /\ task' = [task EXCEPT !.ws.pc = MessageEnd(r.m),
                                      !.ws.susp = NotSuspended]
    /\ UNCHANGED <<now, ws, bot, gateway, inputs, lastEv, shadow, riskIn, decision, qc, cm>>

\* _on_message with an ORDER_TRADE_UPDATE message of the symbol
WsOrderUpdate ==
    /\ Delivered
    /\ task.ws.pc = "recv"
    /\ \E o \in FillEvents :
          /\ WithinBounds(handle_order_update(gs, o))
          /\ gs' = handle_order_update(gs, o)
    /\ task' = [task EXCEPT !.ws.pc = AfterMessage]
    /\ pass' = NoPass
    /\ UNCHANGED <<now, rm, ws, bot, gateway, book, lastEv, shadow,
                   riskIn, decision, qc, cm>>

\* the feeds call back from the creation of the tasks to their cancellation,
\* also while a handler of shutdown() is suspended
FeedsRunning == task.run.pc \in {"monitor", "hedge_sleep"}

\* the feed callbacks of the engine
OnTradeEvent ==
    /\ Delivered
    /\ FeedsRunning
    /\ gs' = [gs EXCEPT !.pending_updates = @ \cup {"rebalance_immediately"}]
    /\ pass' = NoPass
    /\ UNCHANGED <<now, rm, ws, bot, gateway, book, task, lastEv, shadow,
                   riskIn, decision, qc, cm>>

OnPriceUpdate ==
    /\ Delivered
    /\ FeedsRunning
    /\ \E price \in FeedPrices :
          gs' = [gs EXCEPT !.latest_price = price,
                           !.pending_updates = @ \cup {"check_price_drift"}]
    /\ pass' = NoPass
    /\ UNCHANGED <<now, rm, ws, bot, gateway, book, task, lastEv, shadow,
                   riskIn, decision, qc, cm>>

OnOrderUpdate ==
    /\ Delivered
    /\ FeedsRunning
    /\ gs' = [gs EXCEPT !.pending_updates = @ \cup {"rebalance_immediately"}]
    /\ pass' = NoPass
    /\ UNCHANGED <<now, rm, ws, bot, gateway, book, task, lastEv, shadow,
                   riskIn, decision, qc, cm>>

\* the exchange fills or drops a resting order
ExchangeFill ==
    /\ Delivered
    /\ \E i \in 1..Len(book) : book' = Without(book, {i}, 1)
    /\ pass' = NoPass
    /\ UNCHANGED <<now, gs, rm, ws, bot, gateway, task, lastEv, shadow,
                   riskIn, decision, qc, cm>>

\* a scheduler that serves the drift check first
Picked_drift_first(pending) ==
    IF "check_price_drift" \in pending THEN "check_price_drift"
    ELSE "rebalance_immediately"

\* the handler main_strategy_loop picks: the rebalance first
Picked(pending) ==
    IF "rebalance_immediately" \in pending THEN "rebalance_immediately"
    ELSE "check_price_drift"

\* where main_strategy_loop goes when an iteration is through: while self.running
LoopTop(g) == IF g.running THEN "sleep" ELSE "done"

\* the end of an iteration of main_strategy_loop: an exception its handler
\* let out is logged by the loop's except clause, which sleeps and goes on;
\* an exception nothing catches ends the task
IterationEnd(m) == IF Failed(Caught(m)) THEN "raised" ELSE LoopTop(m.gs)

\* a handler from its start, run by task tid
StartHandler(tid, o) ==
    LET kind == Picked(gs.pending_updates)
        p == [FreshPass(tid, kind, HedgeEntry(gs, now)) EXCEPT
                !.throttled = Throttled(gs, kind, now)]
    IN  Outcome(p, Handle(Machine(gs, rm, book, o, now, p), kind), now)

\* a handler from the end of its settle delay
ResumeHandler(tid, susp, o) ==
    Outcome(ResumedPass(tid, susp),
            HandlerResume(Machine(gs, rm, book, o, now, ResumedPass(tid, susp)),
                          susp.kind, susp.current_time),
            now)

\* main_strategy_loop wakes from its one-second sleep: one iteration, up to
\* the next sleep or to the suspension of the handler it runs
SchedWake ==
    /\ ~Exclusive
    /\ task.sched.pc = "sleep"
    /\ IF gs.pending_updates = {}
       THEN /\ task' = [task EXCEPT !.sched.pc = LoopTop(gs), !.sched.woke = {}]
            /\ pass' = NoPass
            /\ UNCHANGED <<gs, rm, book>>
       ELSE \E o \in OraclesAt(now) :
               \E r \in { StartHandler("sched", o) } :
                   /\ Commit(r.m)
                   /\ pass' = r.pass
                   /\ task' = [task EXCEPT !.sched =
                                 [pc |-> IF r.pass.active THEN "hedge_sleep"
                                         ELSE IterationEnd(r.m),
                                  susp |-> r.susp, woke |-> gs.pending_updates]]
    /\ UNCHANGED <<now, ws, bot, gateway, inputs, lastEv, shadow, riskIn, decision, qc, cm>>

\* the handler of the scheduler loop after the settle delay
SchedResume ==
    /\ ~Exclusive
    /\ task.sched.pc = "hedge_sleep"
    /\ \E o \in OraclesAt(now) :
          \E r \in { ResumeHandler("sched", task.sched.susp, o) } :
              /\ Commit(r.m)
              /\ pass' = r.pass
              /\ task' = [task EXCEPT !.sched.pc = IterationEnd(r.m),
                                      !.sched.susp = NotSuspended]
    /\ UNCHANGED <<now, ws, bot, gateway, inputs, lastEv, shadow, riskIn, decision, qc, cm>>

\* SIGINT or SIGTERM
Signal ==
    /\ ~Exclusive
    /\ task.run.pc = "monitor"
    /\ ~bot.stop_signal
    /\ bot' = [bot EXCEPT !.stop_signal = TRUE]
    /\ pass' = NoPass
    /\ UNCHANGED <<now, gs, rm, ws, gateway, book, task, inputs, lastEv, shadow,
                   riskIn, decision, qc, cm>>

\* run() sees the stop signal and enters GridStrategy.shutdown
RunShutdown ==
    /\ task.run.pc = "monitor"
    /\ bot.stop_signal
    /\ gs' = [gs EXCEPT !.running = FALSE]
    /\ task' = [task EXCEPT !.run.pc = "shutdown"]
    /\ pass' = NoPass
    /\ UNCHANGED <<now, rm, ws, bot, gateway, book, inputs, lastEv, shadow,
                   riskIn, decision, qc, cm>>

\* shutdown(): one turn of its while loop (it picks like the scheduler loop)
ShutdownDrain ==
    /\ task.run.pc = "shutdown"
    /\ gs.pending_updates # {}
    /\ \E o \in OraclesAt(now) :
          \E r \in { StartHandler("run", o) } :
              /\ Commit(r.m)
              /\ pass' = r.pass
              /\ task' = [task EXCEPT
                            !.run.pc = IF r.pass.active THEN "hedge_sleep" ELSE "shutdown",
                            !.run.susp = r.susp]
    /\ UNCHANGED <<now, ws, bot, gateway, inputs, lastEv, shadow, riskIn, decision, qc, cm>>

\* a handler shutdown() runs, after the settle delay
ShutdownResume ==
    /\ task.run.pc = "hedge_sleep"
    /\ \E o \in OraclesAt(now) :
          \E r \in { ResumeHandler("run", task.run.susp, o) } :
              /\ Commit(r.m)
              /\ pass' = r.pass
    /\ task' = [task EXCEPT !.run.pc = "shutdown", !.run.susp = NotSuspended]
    /\ UNCHANGED <<now, ws, bot, gateway, inputs, lastEv, shadow, riskIn, decision, qc, cm>>

\* graceful_shutdown that marks the cleanup completed only when it went through
graceful_shutdown_unmarked(b, outcome) ==
    IF b.cleanup_completed THEN b
    ELSE [b EXCEPT !.cleanups = Append(@, outcome),
                   !.cleanup_completed = (outcome = "done")]

\* graceful_shutdown: nothing when the cleanup was completed; otherwise
\* cleanup_account runs, and the cleanup counts as completed whether it
\* returned or raised
graceful_shutdown(b, outcome) ==
    IF b.cleanup_completed THEN b
    ELSE [b EXCEPT !.cleanups = Append(@, outcome), !.cleanup_completed = TRUE]

CleanupOutcomes == { "done", "raised" }

\* shutdown() returned: run() cancels both tasks (a pass suspended in one of
\* them ends there) and waits for them
RunStop ==
    /\ task.run.pc = "shutdown"
    /\ gs.pending_updates = {}
    /\ task' = [task EXCEPT !.run.pc = "stopped",
                            !.ws = [pc |-> "cancelled", susp |-> NotSuspended],
                            !.sched.pc = IF @ = "done" THEN @ ELSE "cancelled",
                            !.sched.susp = NotSuspended]
    /\ pass' = NoPass
    /\ UNCHANGED <<now, gs, rm, ws, bot, gateway, book, inputs, lastEv, shadow,
                   riskIn, decision, qc, cm>>

\* the finally block of main(): graceful_shutdown unless the cleanup was
\* completed
main_finally(b, outcome) ==
    IF b.cleanup_completed THEN b ELSE graceful_shutdown(b, outcome)

\* the finally block of run(), run()'s return and the finally block of
\* main(): no await in them suspends, so they are one step of the event
\* loop.  cleanup_account may leave orders behind.
RunFinally ==
    /\ task.run.pc = "stopped"
    /\ \E first \in CleanupOutcomes, second \in CleanupOutcomes :
          bot' = main_finally(graceful_shutdown(bot, first), second)
    /\ book' \in {<< >>, book}
    /\ task' = [task EXCEPT !.run.pc = "exited"]
    /\ pass' = NoPass
    /\ UNCHANGED <<now, gs, rm, ws, gateway, inputs, lastEv, shadow, riskIn, decision, qc, cm>>

\* run() raised before its try: the finally block of main() alone
MainFinally ==
    /\ task.run.pc = "raised"
    /\ \E outcome \in CleanupOutcomes : bot' = main_finally(bot, outcome)
    /\ book' \in {<< >>, book}
    /\ task' = [task EXCEPT !.run.pc = "exited"]
    /\ pass' = NoPass
    /\ UNCHANGED <<now, gs, rm, ws, gateway, inputs, lastEv, shadow, riskIn, decision, qc, cm>>

Next ==
    \/ Tick \/ RunStart
    \/ WsTicker \/ WsTickerResume \/ WsOrderUpdate
    \/ OnTradeEvent \/ OnPriceUpdate \/ OnOrderUpdate
    \/ ExchangeFill
    \/ SchedWake \/ SchedResume
    \/ Signal \/ RunShutdown \/ ShutdownDrain \/ ShutdownResume \/ RunStop
    \/ RunFinally \/ MainFinally

Spec == Init /\ [][Next]_vars

----------------------------------------------------------------------------
(* SpecRisk: should_reduce_position on every input of a grid of inputs     *)

\* unrealized P&L (money), P&L percentage, margin ratio (1/1000) and notional
\* value (money) around the thresholds of the three rules
RiskInputs ==
    [pnl |-> { 0 - 200000, 0 - 90001, 0 - 90000, 0 - 1, 0, 100000 },
     percentage |-> { 0 - 25, 0 - 21, 0 - 20, 0, 10 },
     margin |-> { 0, 500, 699, 700, 701, 849, 850, 851, 900 },
     position_value |-> { 0, 600000, 1200000 }]

InitRisk ==
    /\ now = StartTime
    /\ gs = GridStrategyInit
    /\ ws = WebSocketHandlerInit
    /\ bot = BotInit
    /\ gateway = WiredGateway
    /\ book = << >>
    /\ task = TaskInit
    /\ pass = NoPass
    /\ inputs = 0
    /\ lastEv = NoLastEvent
    /\ shadow = GridStrategyInit
    /\ riskIn \in [side : Sides, position_value : RiskInputs.position_value,
                    margin_risk : {"unset"}]
    /\ \E pnl \in RiskInputs.pnl, pct \in RiskInputs.percentage,
          margin \in RiskInputs.margin :
          rm = [RiskManagerInit EXCEPT
                  !.margin_ratio = margin,
                  !.position_cache[riskIn.side] =
                      [unrealized_pnl |-> pnl, percentage |-> pct]]
    /\ decision = NoDecision
    /\ qc = QuantityCalculatorInit
    /\ cm = ConnectionManagerInit

EvalRisk ==
    /\ decision = NoDecision
    /\ decision' = should_reduce_position(rm, riskIn.side, riskIn.position_value)
    /\ riskIn' = [riskIn EXCEPT !.margin_risk = check_margin_risk(rm)]
    /\ UNCHANGED <<now, gs, rm, ws, bot, gateway, book, task, pass, inputs, lastEv,
                   shadow, qc, cm>>

NextRisk == EvalRisk

SpecRisk == InitRisk /\ [][NextRisk]_vars

----------------------------------------------------------------------------
(* SpecLedger: the ledger under order events and snapshots                 *)

\* an open order as fetch_open_orders lists it
Order(side, ps, remaining) ==
    [side |-> side, positionSide |-> ps, reduceOnly |-> FALSE, price |-> 12000,
     remaining |-> remaining]

\* whole orders, an order filled completely, and a partially filled order
\* with 20 contracts left
SnapshotOrders ==
    { Order("buy", "LONG", INITIAL_QUANTITY), Order("sell", "LONG", INITIAL_QUANTITY),
      Order("sell", "SHORT", INITIAL_QUANTITY), Order("buy", "LONG", 0),
      Order("sell", "LONG", 20) }

\* the lists a snapshot fetches
SnapshotLists ==
    { << >> } \cup { <<a>> : a \in SnapshotOrders }
              \cup { <<a, a>> : a \in SnapshotOrders }

Snapshot == [NoEvent EXCEPT !.X = "SNAPSHOT"]

InitLedger ==
    /\ now = StartTime
    /\ gs = GridStrategyInit
    /\ rm = RiskManagerInit
    /\ ws = WebSocketHandlerInit
    /\ bot = BotInit
    /\ gateway = WiredGateway
    /\ book = << >>
    /\ task = TaskInit
    /\ pass = NoPass
    /\ inputs = 0
    /\ Unused

\* handle_order_update with an event of the symbol
LedgerEvent ==
    /\ \E o \in OrderEvents :
          /\ WithinBounds(handle_order_update(gs, o))
          /\ gs' = handle_order_update(gs, o)
          /\ lastEv' = [o |-> o, n |-> IF lastEv.o = o THEN Min(lastEv.n + 1, 2) ELSE 1]
    /\ shadow' = gs
    /\ UNCHANGED <<now, rm, ws, bot, gateway, book, task, pass, inputs, riskIn, decision, qc, cm>>

\* check_orders_status with the list the exchange returns
LedgerSnapshot ==
    /\ \E orders \in SnapshotLists :
          /\ gs' = check_orders_status_with(gs, orders)
          /\ book' = orders
    /\ lastEv' = [o |-> Snapshot, n |-> 1]
    /\ shadow' = gs
    /\ UNCHANGED <<now, rm, ws, bot, gateway, task, pass, inputs, riskIn, decision, qc, cm>>

\* update_positions with the sizes the exchange reports
LedgerPositions ==
    /\ \E long_position \in PositionInputs, short_position \in PositionInputs :
          gs' = update_positions(gs, long_position, short_position)
    /\ lastEv' = [o |-> [NoEvent EXCEPT !.X = "POSITIONS"], n |-> 1]
    /\ shadow' = gs
    /\ UNCHANGED <<now, rm, ws, bot, gateway, book, task, pass, inputs, riskIn, decision, qc, cm>>

\* a pass whose hedge pair was placed marks the hedge initialization completed;
\* it does not look at the positions again after the settle delay
LedgerHedgeCompleted ==
    /\ ~gs.hedge_init_completed
    /\ gs' = [gs EXCEPT !.hedge_init_completed = TRUE]
    /\ lastEv' = [o |-> [NoEvent EXCEPT !.X = "HEDGE"], n |-> 1]
    /\ shadow' = gs
    /\ UNCHANGED <<now, rm, ws, bot, gateway, book, task, pass, inputs, riskIn, decision, qc, cm>>

NextLedger == LedgerEvent \/ LedgerSnapshot \/ LedgerPositions \/ LedgerHedgeCompleted

SpecLedger == InitLedger /\ [][NextLedger]_vars

----------------------------------------------------------------------------
(* SpecSnapshot: two ledgers that drift apart and take the same snapshot   *)

\* the events that make the ledgers drift
DriftEvents == { o \in OrderEvents : o.ps = "LONG" }

Drifted == Aggregates(gs) # Aggregates(shadow)

DriftLedger ==
    /\ \E o \in DriftEvents :
          /\ WithinBounds(handle_order_update(gs, o))
          /\ gs' = handle_order_update(gs, o)
          /\ lastEv' = [o |-> o, n |-> 0]
    /\ UNCHANGED <<now, rm, ws, bot, gateway, book, task, pass, inputs, shadow,
                   riskIn, decision, qc, cm>>

DriftShadow ==
    /\ \E o \in DriftEvents :
          /\ WithinBounds(handle_order_update(shadow, o))
          /\ shadow' = handle_order_update(shadow, o)
          /\ lastEv' = [o |-> o, n |-> 0]
    /\ UNCHANGED <<now, gs, rm, ws, bot, gateway, book, task, pass, inputs,
                   riskIn, decision, qc, cm>>

\* both ledgers take the same snapshot; n remembers whether they had drifted
SnapshotBoth ==
    /\ \E orders \in SnapshotLists :
          /\ gs' = check_orders_status_with(gs, orders)
          /\ shadow' = check_orders_status_with(shadow, orders)
    /\ lastEv' = [o |-> Snapshot, n |-> IF Drifted THEN 1 ELSE 0]
    /\ UNCHANGED <<now, rm, ws, bot, gateway, book, task, pass, inputs, riskIn, decision, qc, cm>>

NextSnapshot == DriftLedger \/ DriftShadow \/ SnapshotBoth

SpecSnapshot == InitLedger /\ [][NextSnapshot]_vars

----------------------------------------------------------------------------
(* SpecQuantity: the orders of one quoting operation over a range of prices *)

\* prices in ticks, from 0.05 to 0.5, around 5 / 50 and 5.5 / 50
QuantityPrices == { 5000, 9999, 10000, 10999, 11000, 12000, 50000 }

InitQuantity ==
    /\ now = StartTime
    /\ \E price \in QuantityPrices, long_position \in StartPositions,
          short_position \in StartPositions :
          gs = [update_prices(GridStrategyInit, price, price - 1, price + 1, StartTime)
                  EXCEPT !.long_position = long_position,
                         !.short_position = short_position]
    /\ rm = RiskManagerInit
    /\ ws = WebSocketHandlerInit
    /\ bot = BotInit
    /\ gateway = WiredGateway
    /\ book = << >>
    /\ task = TaskInit
    /\ pass = NoPass
    /\ inputs = 0
    /\ Unused

\* one of initialize_long_orders / initialize_short_orders, the second half
\* of initialize_hedge_orders, place_long_orders / place_short_orders, with a
\* gateway that answers every call
QuoteOnce ==
    /\ inputs = 0
    /\ inputs' = 1
    /\ \E o \in { x \in OraclesAt(now) :
                      [f \in DOMAIN NoFault |-> x[f]] = NoFault },
          side \in Sides, operation \in {"initialize", "hedge", "place"} :
          \E m \in { Machine(gs, rm, book, o, now, NoPass) } :
             \E m1 \in { IF operation = "initialize" THEN initialize_orders(m, side)
                          ELSE IF operation = "hedge" THEN initialize_hedge_orders_end(m)
                          ELSE place_orders(m, side, gs.latest_price) } :
                 /\ Commit(m1)
                 /\ pass' = [NoPass EXCEPT !.task = "run", !.kind = operation,
                                           !.log = m1.log]
    /\ UNCHANGED <<now, ws, bot, gateway, task, lastEv, shadow, riskIn, decision, qc, cm>>

NextQuantity == QuoteOnce

SpecQuantity == InitQuantity /\ [][NextQuantity]_vars

----------------------------------------------------------------------------
(* SpecDynamic: the dynamic quantity policy (quantity_calculator.py)       *)
(* Quantities that the code keeps as floats are kept here in tenths of a   *)
(* contract until they are rounded; a value q * price of q tenths at a     *)
(* price in ticks is compared with v USDC as q * price against             *)
(* v * 10 * PRICE_TICKS_PER_UNIT.  amount_precision is 0.                  *)

ACCOUNT_USAGE_RATIO_PCT == 60
SINGLE_ORDER_RATIO_PCT == 10
MIN_ORDER_VALUE == 5
MAX_ORDER_VALUE == 100
CACHE_DURATION == 30
LEVERAGE == 20
MAX_POSITION_RATIO_TENTHS == 8

\* floor(a * PRICE_TICKS_PER_UNIT / price) without leaving 32 bits
PerPrice(a, price) ==
    (a \div price) * PRICE_TICKS_PER_UNIT
        + ((a % price) * PRICE_TICKS_PER_UNIT) \div price

\* v USDC as the value of tenths of a contract at a price in ticks
ValueTenths(v) == v * 10 * PRICE_TICKS_PER_UNIT

\* round(quantity, amount_precision) of a quantity in tenths: contracts
Rounded(tenths) == RoundDiv(tenths, 10)

\* min_notional / price * 1.1, in tenths
BufferedMinimum(price) ==
    (MIN_ORDER_VALUE * NOTIONAL_BUFFER_TENTHS * PRICE_TICKS_PER_UNIT) \div price

\* QuantityCalculator._calculate_by_funds, in tenths
calculate_by_funds(current_price, available_balance) ==
    LET quantity_by_ratio ==
            (available_balance * SINGLE_ORDER_RATIO_PCT * (PRICE_TICKS_PER_UNIT \div 10))
                \div current_price
        quantity_by_usage ==
            ((available_balance * ACCOUNT_USAGE_RATIO_PCT * (PRICE_TICKS_PER_UNIT \div 10))
                \div 4) \div current_price
    IN  (quantity_by_ratio + quantity_by_usage) \div 2

\* RiskManager.calculate_max_position_size, in tenths
calculate_max_position_size(r, price) ==
    IF r.account_balance <= 0 THEN 0
    ELSE PerPrice(r.account_balance * LEVERAGE * MAX_POSITION_RATIO_TENTHS, price)

\* required_margin > available_balance * 0.9 for a quantity in tenths
MarginShort(r, tenths, price) ==
    LET value == tenths * price
        limit == r.available_balance * 9 * LEVERAGE * 100
    IN  \/ value \div 1000 > limit
        \/ (value \div 1000 = limit /\ value % 1000 > 0)

\* RiskManager.calculate_safe_order_size; position and base quantity in
\* tenths, the result in contracts
calculate_safe_order_size(r, current_position, price, base_quantity) ==
    LET base == IF base_quantity * price < ValueTenths(MIN_ORDER_VALUE)
                THEN BufferedMinimum(price) ELSE base_quantity
        capped == Max(0, Min(base, calculate_max_position_size(r, price)
                                       - current_position))
        funded == IF r.available_balance > 0 /\ MarginShort(r, capped, price)
                  THEN PerPrice(r.available_balance * 9 * LEVERAGE, price)
                  ELSE capped
        floored == IF funded * price < ValueTenths(MIN_ORDER_VALUE)
                   THEN BufferedMinimum(price) ELSE funded
    IN  Max(Rounded(floored), MIN_ORDER_AMOUNT)

\* QuantityCalculator._apply_risk_controls: the result in tenths
apply_risk_controls(r, quantity, current_price, current_position) ==
    LET safe_quantity ==
            10 * calculate_safe_order_size(r, current_position, current_price, quantity)
        risk_level == check_margin_risk(r)
    IN  IF risk_level = "HIGH_RISK" THEN (safe_quantity * 5) \div 10
        ELSE IF risk_level = "MEDIUM_RISK" THEN (safe_quantity * 8) \div 10
        ELSE safe_quantity

\* QuantityCalculator._apply_exchange_limits: tenths in, contracts out
apply_exchange_limits(quantity, current_price) ==
    LET order_value == quantity * current_price
        limited == IF order_value < ValueTenths(MIN_ORDER_VALUE)
                   THEN BufferedMinimum(current_price)
                   ELSE IF order_value > ValueTenths(MAX_ORDER_VALUE)
                   THEN ValueTenths(MAX_ORDER_VALUE) \div current_price
                   ELSE quantity
    IN  Max(Rounded(limited), MIN_ORDER_AMOUNT)

\* QuantityCalculator._get_min_quantity: contracts
get_min_quantity(current_price) ==
    Rounded(Max((MIN_ORDER_VALUE * 12 * PRICE_TICKS_PER_UNIT) \div current_price,
                10 * MIN_ORDER_AMOUNT))

\* calculate_optimal_quantity at time m.t with the calculator c: the
\* calculator and the risk manager after the call.  Within cache_duration of
\* the last computation the cached quantity is returned; without funds the
\* minimum quantity is, and neither the cache nor its time is written.
calculate_optimal_quantity(c, m, current_price, current_position) ==
    IF m.t - c.last_calculation_time < CACHE_DURATION
    THEN [qc |-> [c EXCEPT !.price = current_price, !.returned = c.cached_quantity,
                           !.path = "cache"],
          rm |-> m.rm]
    ELSE LET r == RefreshAccount(m).rm
             final_quantity ==
                 apply_exchange_limits(
                     apply_risk_controls(
                         r, calculate_by_funds(current_price, r.available_balance),
                         current_price, current_position),
                     current_price)
         IN  IF r.available_balance <= 0 \/ r.account_balance <= 0
             THEN [qc |-> [c EXCEPT !.price = current_price,
                                    !.returned = get_min_quantity(current_price),
                                    !.path = "minimum"],
                   rm |-> r]
             ELSE [qc |-> [last_calculation_time |-> m.t,
                           cached_quantity |-> final_quantity,
                           price |-> current_price, returned |-> final_quantity,
                           path |-> "fresh"],
                   rm |-> r]

\* bounds of SpecDynamic: the clock steps DynStep seconds, DynTicks times
DynStep == 10
DynTicks == 4

\* prices of the calls, in ticks
DynPrices == { 5000, 10000, 12000, 12400, 20000 }

\* positions of the calls, in contracts
DynPositions == { 0, INITIAL_QUANTITY }

\* answers of get_account_balance: it raises, an account without funds, a
\* small account, an account with a margin ratio of 0.9
DynAccountAnswers ==
    AccountAnswers \cup { [ok |-> TRUE, total |-> 0, available |-> 0],
                          [ok |-> TRUE, total |-> 50, available |-> 40] }

InitDynamic ==
    /\ now = StartTime
    /\ gs = GridStrategyInit
    /\ rm = RiskManagerInit
    /\ ws = WebSocketHandlerInit
    /\ bot = BotInit
    /\ gateway \in Gateways
    /\ book = << >>
    /\ task = TaskInit
    /\ pass = NoPass
    /\ inputs = 0
    /\ Unused

DynTick ==
    /\ now < StartTime + DynTicks * DynStep
    /\ now' = now + DynStep
    /\ UNCHANGED <<gs, rm, ws, bot, gateway, book, task, pass, inputs, lastEv, shadow,
                   riskIn, decision, qc, cm>>

\* one call of calculate_optimal_quantity
CalculateOnce ==
    /\ \E current_price \in DynPrices, current_position \in DynPositions,
          a \in DynAccountAnswers :
          \E r \in { calculate_optimal_quantity(
                         qc,
                         Machine(gs, rm, book,
                                 [fetchFail |-> {}, cancelNotFound |-> {},
                                  cancelError |-> {}, placeFail |-> {},
                                  account |-> a,
                                  positions |-> [ok |-> FALSE, data |-> NoPositionData]],
                                 now, NoPass),
                         current_price, 10 * current_position) } :
              /\ qc' = r.qc
              /\ rm' = r.rm
    /\ UNCHANGED <<now, gs, ws, bot, gateway, book, task, pass, inputs, lastEv, shadow,
                   riskIn, decision, cm>>

NextDynamic == DynTick \/ CalculateOnce

SpecDynamic == InitDynamic /\ [][NextDynamic]_vars

----------------------------------------------------------------------------
(* connection_manager.py: ConnectionManager.connect and the two loops it   *)
(* gathers (SpecConn)                                                      *)

RECURSIVE Power(_, _)
Power(b, e) == IF e = 0 THEN 1 ELSE b * Power(b, e - 1)

\* ConnectionManager._reset_retry_params
reset_retry_params(c) ==
    [c EXCEPT !.retry_count = 0, !.current_retry_delay = INITIAL_RETRY_DELAY]

\* ConnectionManager._handle_connection_failure without the cap of the delay
handle_connection_failure_uncapped(c) ==
    IF c.retry_count + 1 > MAX_RETRIES
    THEN [c EXCEPT !.retry_count = @ + 1, !.state = "FAILED"]
    ELSE [c EXCEPT !.retry_count = @ + 1,
                   !.current_retry_delay =
                       INITIAL_RETRY_DELAY * Power(RETRY_MULTIPLIER, c.retry_count)]

\* ConnectionManager._handle_connection_failure (on_disconnected_callback only
\* logs)
handle_connection_failure(c) ==
    IF c.retry_count + 1 > MAX_RETRIES
    THEN [c EXCEPT !.retry_count = @ + 1, !.state = "FAILED"]
    ELSE [c EXCEPT !.retry_count = @ + 1,
                   !.current_retry_delay =
                       Min(INITIAL_RETRY_DELAY * Power(RETRY_MULTIPLIER, c.retry_count),
                           MAX_RETRY_DELAY)]

\* the except clause of connect(): an exception of _attempt_connection
ConnectCaught(c) ==
    IF ~c.stop_signal
    THEN [handle_connection_failure(c) EXCEPT !.connect = "loop"]
    ELSE [c EXCEPT !.connect = "stopped"]

\* the test of the while loops of _message_loop and _health_check_loop
LoopRuns(c) == ~c.stop_signal /\ c.state = "CONNECTED"

\* bounds of SpecConn: calls of websockets.connect, those of them that open
\* a connection, the step of the clock while connected, and how long a
\* connection is followed
MaxAttempts == 13
MaxOpens == 2
ConnStep == 10
MaxSessionAge == 90

\* what websockets.connect and the subscription callback do: the connection
\* opens and is subscribed, it is refused, it opens and the subscription
\* raises
DialOutcomes == { "open", "refused", "unsubscribed" }

InitConn ==
    /\ now = StartTime
    /\ gs = GridStrategyInit
    /\ rm = RiskManagerInit
    /\ ws = WebSocketHandlerInit
    /\ bot = BotInit
    /\ gateway = WiredGateway
    /\ book = << >>
    /\ task = TaskInit
    /\ pass = NoPass
    /\ inputs = 0
    /\ Unused

ConnUnchanged ==
    UNCHANGED <<gs, rm, ws, bot, gateway, book, task, pass, inputs, lastEv, shadow,
                riskIn, decision, qc>>

\* connect(): the test of its loop and, in _attempt_connection, the choice
\* between a first attempt and a retry (105-113)
ConnectLoop ==
    /\ cm.connect = "loop"
    /\ cm' = IF cm.stop_signal THEN [cm EXCEPT !.connect = "stopped"]
             ELSE IF cm.retry_count > 0
             THEN [cm EXCEPT !.state = "RECONNECTING", !.connect = "sleep"]
             ELSE [cm EXCEPT !.state = "CONNECTING", !.connect = "dial"]
    /\ UNCHANGED now
    /\ ConnUnchanged

\* asyncio.sleep(self.current_retry_delay) of a retry
ConnectSleep ==
    /\ cm.connect = "sleep"
    /\ now' = now + cm.current_retry_delay
    /\ cm' = [cm EXCEPT !.connect = "dial"]
    /\ ConnUnchanged

\* websockets.connect and what follows it in _attempt_connection and in
\* connect(): the callbacks, the reset of the retry parameters and the start
\* of the two loops, or the except clause
ConnectDial ==
    /\ cm.connect = "dial"
    /\ cm.attempts < MaxAttempts
    /\ \E outcome \in DialOutcomes :
          /\ outcome = "open" => cm.opens < MaxOpens
          /\ \E c \in { [cm EXCEPT !.attempts = @ + 1, !.waited = now - cm.lost] } :
                cm' = IF outcome = "refused"
                      THEN [ConnectCaught(c) EXCEPT !.lost = now]
                      ELSE IF outcome = "unsubscribed"
                      THEN [ConnectCaught(
                                [c EXCEPT !.state = "CONNECTED",
                                          !.connection_start_time = now,
                                          !.last_message_time = now,
                                          !.last_heartbeat_time = now])
                            EXCEPT !.lost = now]
                      ELSE [reset_retry_params(c) EXCEPT
                              !.state = "CONNECTED",
                              !.opens = @ + 1,
                              !.connection_start_time = now,
                              !.last_message_time = now,
                              !.last_heartbeat_time = now,
                              !.connect = "gather",
                              !.message_loop = IF c.stop_signal THEN "done" ELSE "recv",
                              !.deadline = now + HEARTBEAT_INTERVAL,
                              !.health_check_loop =
                                  IF c.stop_signal THEN "done" ELSE "sleep",
                              !.wake = now + HEARTBEAT_INTERVAL]
    /\ UNCHANGED now
    /\ ConnUnchanged

\* time passes while the two loops wait
ConnTick ==
    /\ cm.connect = "gather"
    /\ now - cm.connection_start_time < MaxSessionAge
    /\ cm.message_loop = "recv" => now + ConnStep <= cm.deadline
    /\ cm.health_check_loop = "sleep" => now + ConnStep <= cm.wake
    /\ cm.message_loop = "recv" \/ cm.health_check_loop = "sleep"
    /\ now' = now + ConnStep
    /\ UNCHANGED cm
    /\ ConnUnchanged

\* _message_loop: recv() returns a message
ConnMessage ==
    /\ cm.connect = "gather" /\ cm.message_loop = "recv"
    /\ cm' = [cm EXCEPT !.last_message_time = now,
                        !.message_loop = IF LoopRuns(cm) THEN "recv" ELSE "done",
                        !.deadline = now + HEARTBEAT_INTERVAL]
    /\ UNCHANGED now
    /\ ConnUnchanged

\* _message_loop: recv() times out after heartbeat_interval
ConnRecvTimeout ==
    /\ cm.connect = "gather" /\ cm.message_loop = "recv"
    /\ now = cm.deadline
    /\ cm' = [cm EXCEPT !.message_loop = IF LoopRuns(cm) THEN "recv" ELSE "done",
                        !.deadline = now + HEARTBEAT_INTERVAL]
    /\ UNCHANGED now
    /\ ConnUnchanged

\* _message_loop: recv() raises because the peer closed the connection
ConnClosed ==
    /\ cm.connect = "gather" /\ cm.message_loop = "recv"
    /\ cm' = [cm EXCEPT !.state = "DISCONNECTED", !.message_loop = "done",
                        !.lost = now]
    /\ UNCHANGED now
    /\ ConnUnchanged

\* _health_check_loop: one iteration after its sleep.  A connection silent
\* for more than health_check_timeout is closed, which ends the recv() of the
\* message loop with ConnectionClosed.
ConnHealthCheck ==
    /\ cm.connect = "gather" /\ cm.health_check_loop = "sleep"
    /\ now = cm.wake
    /\ cm' = IF now - cm.last_message_time > HEALTH_CHECK_TIMEOUT
             THEN [cm EXCEPT !.state = "DISCONNECTED",
                             !.health_check_loop = "done",
                             !.message_loop = "done",
                             !.lost = IF cm.state = "CONNECTED" THEN now ELSE @]
             ELSE [cm EXCEPT !.last_heartbeat_time =
                                 IF now - @ > HEARTBEAT_INTERVAL THEN now ELSE @,
                             !.health_check_loop =
                                 IF LoopRuns(cm) THEN "sleep" ELSE "done",
                             !.wake = now + HEARTBEAT_INTERVAL]
    /\ UNCHANGED now
    /\ ConnUnchanged

\* asyncio.gather returns when both loops have ended; connect() loops
ConnGathered ==
    /\ cm.connect = "gather"
    /\ cm.message_loop = "done" /\ cm.health_check_loop = "done"
    /\ cm' = [cm EXCEPT !.connect = "loop"]
    /\ UNCHANGED now
    /\ ConnUnchanged

\* ConnectionManager.set_stop_signal
ConnStop ==
    /\ ~cm.stop_signal /\ cm.connect # "stopped"
    /\ cm' = [cm EXCEPT !.stop_signal = TRUE]
    /\ UNCHANGED now
    /\ ConnUnchanged

NextConn ==
    \/ ConnectLoop \/ ConnectSleep \/ ConnectDial
    \/ ConnTick \/ ConnMessage \/ ConnRecvTimeout \/ ConnClosed
    \/ ConnHealthCheck \/ ConnGathered \/ ConnStop

SpecConn == InitConn /\ [][NextConn]_vars

----------------------------------------------------------------------------
(* The quantity of a forced reduction, by itself (SpecReduce)              *)

\* bound of SpecReduce: the positions, in contracts
MaxReducePosition == 20

\* the ratios should_reduce_position suggests, in 1/100
SuggestedRatios == { 30, 40, 50 }

\* limits.amount.min as _get_price_precision reads it from the market data:
\* one lot, or more than one lot
MinOrderAmounts == { 1, 5 }

InitReduce ==
    /\ now = StartTime
    /\ gs = GridStrategyInit
    /\ rm = RiskManagerInit
    /\ ws = WebSocketHandlerInit
    /\ bot = BotInit
    /\ gateway = WiredGateway
    /\ book = << >>
    /\ task = TaskInit
    /\ pass = NoPass
    /\ inputs = 0
    /\ lastEv = NoLastEvent /\ shadow = GridStrategyInit
    /\ qc = QuantityCalculatorInit
    /\ cm = ConnectionManagerInit
    /\ riskIn \in [position : 1..MaxReducePosition,
                    suggested_ratio : SuggestedRatios,
                    min_order_amount : MinOrderAmounts]
    /\ decision = NoDecision

\* the three lines that compute reduce_qty
ReduceOnce ==
    /\ decision = NoDecision
    /\ decision' = [reduce_qty |-> reduce_qty(riskIn.position, riskIn.suggested_ratio,
                                              riskIn.min_order_amount)]
    /\ UNCHANGED <<now, gs, rm, ws, bot, gateway, book, task, pass, inputs, lastEv,
                   shadow, riskIn, qc, cm>>

NextReduce == ReduceOnce

SpecReduce == InitReduce /\ [][NextReduce]_vars

----------------------------------------------------------------------------
(* The scheduler loop under feeds that never run dry (SpecLoop)            *)

\* on_trade_event and on_order_update, as often as the feed calls them
RebalanceEvents ==
    /\ FeedsRunning
    /\ gs' = [gs EXCEPT !.pending_updates = @ \cup {"rebalance_immediately"}]
    /\ pass' = NoPass
    /\ UNCHANGED <<now, rm, ws, bot, gateway, book, task, inputs, lastEv, shadow,
                   riskIn, decision, qc, cm>>

\* on_price_update, as often as the feed calls it
PriceEvents ==
    /\ FeedsRunning
    /\ \E price \in FeedPrices :
          gs' = [gs EXCEPT !.latest_price = price,
                           !.pending_updates = @ \cup {"check_price_drift"}]
    /\ pass' = NoPass
    /\ UNCHANGED <<now, rm, ws, bot, gateway, book, task, inputs, lastEv, shadow,
                   riskIn, decision, qc, cm>>

\* the clock is not followed: which handler the loop picks does not read it
NextLoop ==
    \/ RunStart \/ RebalanceEvents \/ PriceEvents
    \/ SchedWake \/ SchedResume

\* main_strategy_loop keeps running: its one-second sleep and the settle
\* delay of a handler it runs always end, and run() starts.  The first two
\* conditions are WF_vars(SchedWake), for the iterations that find something
\* pending, and WF_vars(SchedResume), written out with the guard of the
\* action for ENABLED.
SpecLoop ==
    /\ InitFair
    /\ [][NextLoop]_vars
    /\ \/ []<>~(task.sched.pc = "sleep" /\ gs.pending_updates # {})
       \/ []<><<SchedWake>>_vars
    /\ \/ []<>~(task.sched.pc = "hedge_sleep")
       \/ []<><<SchedResume>>_vars
    /\ WF_vars(RunStart)

----------------------------------------------------------------------------
(* Properties of the ledger (SpecLedger, SpecSnapshot)                     *)

\* what idempotence compares: the position sizes and the four aggregates
Ledger(g) == <<g.long_position, g.short_position>> \o Aggregates(g)

\* C5: after every sequence of NEW, FILLED and CANCELED events (any side,
\* any position side, 0 <= filled <= quantity, also for orders never seen
\* as NEW) interleaved with snapshots, each of the four resting-order
\* aggregates is >= 0.
C5_AggregatesNonNegative == \A i \in 1..4 : Aggregates(gs)[i] >= 0

\* C5 happens: a cancellation larger than the aggregate it is taken from
\* (an order never seen as NEW) left the aggregate at 0
C5_Witness ==
    /\ lastEv.o.X = "CANCELED" /\ lastEv.o.S = "BUY" /\ lastEv.o.ps = "LONG"
    /\ shadow.buy_long_orders < lastEv.o.q
    /\ gs.buy_long_orders = 0

\* C6 as stated: the same FILLED event (same order id, same cumulative filled
\* quantity) applied a second time leaves the ledger as the first application
\* left it (shadow is the ledger before the last event).
C6_FilledTwiceIsIdempotent ==
    (lastEv.o.X = "FILLED" /\ lastEv.n = 2) => Ledger(gs) = Ledger(shadow)

\* C7: after a snapshot the four aggregates depend on the fetched list only:
\* two ledgers that take the same snapshot have the same aggregates,
\* whatever events each of them had seen before.
C7_SnapshotForgetsDrift ==
    lastEv.o.X = "SNAPSHOT" => Aggregates(gs) = Aggregates(shadow)

\* C7 happens: the two ledgers had drifted apart when they took the snapshot,
\* and the snapshot listed open orders
C7_Witness ==
    /\ lastEv.o.X = "SNAPSHOT" /\ lastEv.n = 1
    /\ Aggregates(gs) = Aggregates(shadow)
    /\ gs.buy_long_orders > 0

----------------------------------------------------------------------------
(* Properties of should_reduce_position (SpecRisk)                         *)

\* the three rules, each on its own
StopLossMatches ==
    /\ get_position_pnl(rm, riskIn.side) < 0
    /\ Abs(get_position_pnl(rm, riskIn.side)) * 100
          > riskIn.position_value * STOP_LOSS_RATIO_PCT
ExtremeLossMatches == get_position_percentage(rm, riskIn.side) < 0 - EXTREME_LOSS_PCT
MarginMatches == check_margin_risk(rm) = "HIGH_RISK"

Decided(should_reduce, urgency, suggested_ratio) ==
    /\ decision.should_reduce = should_reduce
    /\ decision.urgency = urgency
    /\ decision.suggested_ratio = suggested_ratio

\* C10: should_reduce_position returns the decision of the first matching
\* rule only, in the order stop-loss (HIGH, 0.5), extreme loss (HIGH, 0.3),
\* high margin risk (MEDIUM, 0.4), and otherwise should_reduce = false with
\* ratio 0; the ratios of several matching rules are never combined.
C10_FirstMatchingRuleOnly ==
    decision # NoDecision =>
        IF StopLossMatches THEN Decided(TRUE, "HIGH", 50)
        ELSE IF ExtremeLossMatches THEN Decided(TRUE, "HIGH", 30)
        ELSE IF MarginMatches THEN Decided(TRUE, "MEDIUM", 40)
        ELSE decision.should_reduce = FALSE /\ decision.suggested_ratio = 0

\* C10 happens: all three rules match and the stop-loss decision is returned
C10_Witness ==
    /\ decision # NoDecision
    /\ StopLossMatches /\ ExtremeLossMatches /\ MarginMatches
    /\ Decided(TRUE, "HIGH", 50)

\* C21: the margin-risk class is HIGH exactly when the margin ratio is above
\* 0.85, MEDIUM exactly when it is above 0.70 and at most 0.85, LOW otherwise;
\* 0.85 itself is MEDIUM and 0.70 itself is LOW.
C21_MarginClasses ==
    riskIn.margin_risk # "unset" =>
        /\ (riskIn.margin_risk = "HIGH_RISK") = (rm.margin_ratio > 850)
        /\ (riskIn.margin_risk = "MEDIUM_RISK")
              = (rm.margin_ratio > 700 /\ rm.margin_ratio <= 850)
        /\ (riskIn.margin_risk = "LOW_RISK") = (rm.margin_ratio <= 700)

\* C21 happens: a ratio of exactly 0.85 was classified, as MEDIUM
C21_Witness ==
    rm.margin_ratio = 850 /\ riskIn.margin_risk = "MEDIUM_RISK"

----------------------------------------------------------------------------
(* Properties of the passes (Spec).  pass is the pass whose code ran in    *)
(* the step that led to the state; a task at hedge_sleep holds a pass      *)
(* that is suspended in the settle delay of initialize_hedge_orders.       *)

\* the entries of the pass's log that are orders placed for a side
PlacedFor(side) ==
    { i \in 1..Len(pass.log) :
        pass.log[i].op = "place" /\ pass.log[i].ps = Upper(side) }

\* C1 as stated: in a pass in which the risk review decided to reduce a side
\* (should_reduce with urgency HIGH or MEDIUM, position of the side > 0), the
\* reduce-only market order is the only order the pass issues for that side:
\* no initialisation order, no cancellation, no re-quote.
C1_ReduceIsTheOnlyOrder ==
    \A side \in pass.risk :
        \A i \in 1..Len(pass.log) :
            pass.log[i].ps = Upper(side) => pass.log[i].tag = "reduce"

\* C2: in an iteration of the scheduler loop that woke with both kinds
\* pending, every step of the scheduler runs the rebalance handler, never the
\* drift handler, and leaves check_price_drift pending as it found it.
C2_RebalanceBeforeDrift ==
    [][ (pass'.task = "sched" /\ task'.sched.woke = EventKinds)
          => /\ pass'.kind = "rebalance_immediately"
             /\ "check_price_drift" \in gs.pending_updates
                   => "check_price_drift" \in gs'.pending_updates ]_vars

\* C2 happens: the scheduler loop woke with both kinds pending, its rebalance
\* handler ran to its end and check_price_drift is still pending
C2_Witness ==
    /\ pass.task = "sched" /\ task.sched.woke = EventKinds
    /\ pass.kind = "rebalance_immediately" /\ ~pass.active
    /\ task.sched.pc = "sleep"
    /\ "check_price_drift" \in gs.pending_updates

\* the tasks whose pass is suspended in the settle delay
Suspended == { t \in DOMAIN task : task[t].pc = "hedge_sleep" }

\* C3 as stated: at most one decision pass (ticker adjust, scheduler handler,
\* shutdown handler) is in progress at any time, a pass suspended in the
\* hedge settle delay included: no two passes are suspended together and no
\* pass runs while the pass of another task is suspended.
C3_OnePassAtATime ==
    /\ Cardinality(Suspended) <= 1
    /\ pass.task # "none" => Suspended \subseteq {pass.task}

\* the callbacks of the feed: the ticker message, the order-lifecycle message
\* and the three on_* callbacks of the engine
FeedCallback ==
    WsTicker \/ WsOrderUpdate \/ OnTradeEvent \/ OnPriceUpdate \/ OnOrderUpdate

\* the engine's state but for the pending set
BesidesPending(g) == [g EXCEPT !.pending_updates = {}]

\* C4 as stated: a feed callback changes nothing of the engine but the
\* pending set (positions, aggregates, latest price, grid levels and cooldown
\* timestamps stay as they were) and places or cancels no order.
C4_CallbacksOnlyEnqueue ==
    [][ FeedCallback => /\ BesidesPending(gs') = BesidesPending(gs)
                        /\ book' = book ]_vars

\* the opening orders a pass placed: the placements that are not reduce-only
Opening == { i \in 1..Len(pass.log) : pass.log[i].op = "place" /\ ~pass.log[i].ro }

\* exactly one opening buy of the long side and one opening sell of the short
\* side, and hedge_init_completed set by the pass exactly when both returned
HedgeOutcome ==
    /\ Cardinality(Opening) = 2
    /\ Cardinality({ i \in Opening : pass.log[i].side = "buy"
                                     /\ pass.log[i].ps = "LONG" }) = 1
    /\ Cardinality({ i \in Opening : pass.log[i].side = "sell"
                                     /\ pass.log[i].ps = "SHORT" }) = 1
    /\ pass.sethedge <=> \A i \in Opening : pass.log[i].ok

RestingOf(side) == { i \in 1..Len(book) : BelongsToSide(book[i], side) }

\* the pass cancelled the side's orders and placed the side's take-profit and
\* re-entry orders: what rests for the side is what the pass placed
Requoted(side) ==
    /\ \E i \in PlacedFor(side) : pass.log[i].tag = "take_profit"
    /\ \E i \in PlacedFor(side) : pass.log[i].tag = "reentry"
    /\ Cardinality(RestingOf(side))
          <= Cardinality({ i \in PlacedFor(side) : pass.log[i].ok })

IsReduceOrder(e, side) ==
    /\ e.op = "place" /\ e.type = "market" /\ e.ro
    /\ e.side = CloseSide(side) /\ e.ps = Upper(side)
    /\ e.qty = Max(RoundDiv(Position(gs, side)
                                * RiskDecision([gs |-> gs, rm |-> rm], side).suggested_ratio,
                             100),
                   MIN_ORDER_AMOUNT)

\* C11 as stated: in a pass whose risk decision for a side with a position
\* asked for a reduction (urgency HIGH or MEDIUM), exactly one order is
\* submitted for that side, and it is the market reduce-only order closing
\* the side, of max(round(p * r), min_order_amount) contracts.
C11_ExactlyOneReduceOrder ==
    \A side \in pass.risk :
        /\ Cardinality(PlacedFor(side)) = 1
        /\ \A i \in PlacedFor(side) : IsReduceOrder(pass.log[i], side)

\* |latest_price - last_grid_update_price| / last_grid_update_price
\*     <= GRID_UPDATE_THRESHOLD, for a recorded baseline
WithinDriftThreshold(g) ==
    Abs(g.latest_price - g.last_grid_update_price) * 1000
        <= 2 * GRID_SPACING_PM * g.last_grid_update_price

\* C12: a price-drift pass that starts with a position on at least one side
\* and a recorded baseline the latest price is within GRID_UPDATE_THRESHOLD
\* of, and in which no risk reduction is triggered, cancels no order, places
\* no order and leaves the baseline as it is.
C12_SmallDriftChangesNothing ==
    [][ ( /\ pass'.kind = "check_price_drift"
          /\ task[pass'.task].pc # "hedge_sleep"
          /\ gs.long_position > 0 \/ gs.short_position > 0
          /\ gs.last_grid_update_price > 0
          /\ WithinDriftThreshold(gs)
          /\ pass'.risk = {} )
        => /\ pass'.log = << >>
           /\ book' = book
           /\ gs'.last_grid_update_price = gs.last_grid_update_price ]_vars

\* a drift check that was not throttled found the price exactly
\* GRID_UPDATE_THRESHOLD away from the baseline and did nothing
C12_Witness ==
    /\ pass.kind = "check_price_drift" /\ ~pass.active /\ ~pass.throttled
    /\ gs.long_position > 0 \/ gs.short_position > 0
    /\ gs.last_grid_update_price > 0
    /\ gs.latest_price # gs.last_grid_update_price
    /\ Abs(gs.latest_price - gs.last_grid_update_price) * 1000
          = 2 * GRID_SPACING_PM * gs.last_grid_update_price
    /\ pass.risk = {} /\ pass.log = << >>
    /\ book # << >>

----------------------------------------------------------------------------
(* SpecFair: the bot when the event loop resumes what run() awaits          *)

\* shutdown() is a coroutine run() awaits: the event loop runs each turn of
\* its while loop, resumes it when the settle delay of a handler is over, and
\* lets it return.  Nothing is assumed about the feeds or the other tasks.
\* The three conditions are WF_vars(ShutdownDrain), WF_vars(ShutdownResume)
\* and WF_vars(RunStop); the first two are written out, with the guard of
\* the action for ENABLED: a turn of the loop takes a kind out of the pending
\* set and a resumed handler leaves the settle delay, so each step of them
\* changes vars whenever the guard holds.  The gateway is ExchangeClient as
\* the bot wires it.
SpecFair ==
    /\ InitFair
    /\ [][Next]_vars
    /\ \/ []<>~(task.run.pc = "shutdown" /\ gs.pending_updates # {})
       \/ []<><<ShutdownDrain>>_vars
    /\ \/ []<>~(task.run.pc = "hedge_sleep")
       \/ []<><<ShutdownResume>>_vars
    /\ WF_vars(RunStop)

\* C13: shutdown() terminates whatever is pending when it is called and
\* whatever the feed callbacks add while it drains, the pending set is empty
\* when it returns, and a kind leaves the pending set only in a step in which
\* the handler of that kind runs.
C13_ShutdownDrains ==
    /\ [](task.run.pc = "shutdown"
            => <>(task.run.pc = "stopped" /\ gs.pending_updates = {}))
    /\ [][ \A kind \in gs.pending_updates \ gs'.pending_updates :
              pass'.kind = kind /\ pass'.task # "none" ]_vars

\* shutdown() has just run the drift handler, not throttled, to its end and
\* finds nothing pending any more
C13_Witness ==
    /\ task.run.pc = "shutdown"
    /\ pass.task = "run" /\ ~pass.active /\ ~pass.throttled
    /\ pass.kind = "check_price_drift"
    /\ gs.pending_updates = {}


----------------------------------------------------------------------------
(* Stopping while a pass is in progress                                    *)

\* C14 as stated: the scheduler task is never cancelled while the handler it
\* runs is suspended, so that no pass that has started is abandoned
C14_NoPassAbandoned ==
    [][ task.sched.pc = "hedge_sleep" => task'.sched.pc # "cancelled" ]_vars


----------------------------------------------------------------------------
(* The hedge flag when the positions empty (SpecLedger)                    *)

Flat(g) == g.long_position = 0 /\ g.short_position = 0

\* C15 as stated: whenever the positions go from not both zero to both zero,
\* by a position snapshot or by FILLED events, hedge_init_completed is false
\* afterwards
C15_FlatResetsHedgeFlag ==
    [][ (~Flat(gs) /\ Flat(gs')) => ~gs'.hedge_init_completed ]_vars


----------------------------------------------------------------------------
(* The gates of the hedge initialization                                   *)

\* the tasks that enter, and leave, the settle delay of a hedge
\* initialization in this step
Entering == { t \in DOMAIN task : task[t].pc # "hedge_sleep" /\ task'[t].pc = "hedge_sleep" }
Leaving == { t \in DOMAIN task : task[t].pc = "hedge_sleep" /\ task'[t].pc # "hedge_sleep" }

\* C16 as stated: an attempt at the hedge initialization that goes ahead (it
\* cancels both sides and enters the settle delay) starts at least the retry
\* interval after the last attempt recorded and after the start of every
\* attempt still in progress, and it cancels, and later places, only when
\* neither side's last-order time is within ORDER_FIRST_TIME
C16_HedgeAttemptsGated ==
    [][ /\ \A t \in Entering :
              /\ now - gs.last_hedge_init_time >= HEDGE_RETRY_INTERVAL
              /\ \A u \in Suspended \ {t} :
                    now - task[u].susp.current_time >= HEDGE_RETRY_INTERVAL
              /\ HedgeCanInit(gs, now)
        /\ \A t \in Leaving :
              (\E i \in 1..Len(pass'.log) : pass'.log[i].op = "place")
                  => HedgeCanInit(gs, now) ]_vars


----------------------------------------------------------------------------
(* The order of cancels and new orders within a pass                       *)

\* the cancel requests and the new limit orders a stretch of a pass issued
\* for a side (the market order of a risk reduction is no quote)
CancelsFor(ps) ==
    { i \in 1..Len(pass.log) : pass.log[i].op = "cancel" /\ pass.log[i].ps = ps }
QuotesFor(ps) ==
    { i \in 1..Len(pass.log) :
        pass.log[i].op = "place" /\ pass.log[i].type = "limit" /\ pass.log[i].ps = ps }

\* C17: in every initialization or re-quote of a side within one pass, every
\* cancel request for the side's resting orders is issued before the first
\* new order for the side, and none after a new order of the pass.
C17_CancelsBeforeQuotes ==
    \A ps \in {"LONG", "SHORT"} :
        \A i \in CancelsFor(ps), j \in QuotesFor(ps) : i < j

\* C17 happens: a finished pass cancelled a resting order of the long side
\* and then placed the side's take-profit and re-entry orders
C17_Witness ==
    /\ pass.task # "none" /\ ~pass.active
    /\ CancelsFor("LONG") # {}
    /\ \E j \in QuotesFor("LONG") : pass.log[j].tag = "take_profit" /\ pass.log[j].ok
    /\ \E j \in QuotesFor("LONG") : pass.log[j].tag = "reentry" /\ pass.log[j].ok


----------------------------------------------------------------------------
(* Passes after the stop                                                   *)

\* C18 as stated: once shutdown() has set running to false, the scheduler
\* loop starts no handler (an iteration that was asleep when the stop came
\* included) and no message starts adjust_grid_strategy
C18_NoPassAfterStop ==
    [][ ~gs.running =>
          /\ ~(task.sched.pc = "sleep" /\ pass'.task = "sched")
          /\ ~(task.ws.pc = "recv" /\ pass'.task = "ws") ]_vars


----------------------------------------------------------------------------
(* The cleanup at the end of a run                                         *)

TasksCancelled ==
    task.ws.pc = "cancelled" /\ task.sched.pc \in {"cancelled", "done"}

\* C19: the account cleanup runs exactly once per run: cleanup_account is
\* never started a second time, also when the first one raised; when main()
\* is through it has run once; and after a stop it starts only when
\* shutdown() has returned and both tasks have been cancelled.
C19_CleanupOnce ==
    [][ /\ Len(bot'.cleanups) <= 1
        /\ task'.run.pc = "exited" => Len(bot'.cleanups) = 1
        /\ (bot'.cleanups # bot.cleanups /\ ~gs.running)
              => (task.run.pc = "stopped" /\ gs.pending_updates = {} /\ TasksCancelled)
      ]_vars

\* C19 happens: after a stop the cleanup of run()'s finally block raised and
\* main()'s finally block is through
C19_Witness ==
    /\ task.run.pc = "exited"
    /\ ~gs.running /\ bot.stop_signal
    /\ bot.cleanups = <<"raised">>


----------------------------------------------------------------------------
(* The notional value of the limit orders (SpecQuantity)                   *)

LimitOrders ==
    { i \in 1..Len(pass.log) : pass.log[i].op = "place" /\ pass.log[i].type = "limit" }

\* C20 as stated: in fixed-quantity mode every limit order the engine submits
\* (opening orders, take-profit and re-entry orders) has quantity times the
\* reference price at or above the minimum notional value, at every price,
\* and at a price where the configured quantity meets the floor (0.12) the
\* quantity is the configured quantity
C20_NotionalFloor ==
    \A i \in LimitOrders :
        /\ pass.log[i].qty * gs.latest_price >= MIN_NOTIONAL * PRICE_TICKS_PER_UNIT
        /\ INITIAL_QUANTITY * gs.latest_price >= MIN_NOTIONAL * PRICE_TICKS_PER_UNIT
              => pass.log[i].qty = INITIAL_QUANTITY


\* C22: no failure of a gateway call ends a loop.  Neither the scheduler loop nor
\* the message loop is ever ended by an exception; after a scheduler pass in
\* which a gateway call raised the loop is back at its sleep while the engine
\* runs, and after a ticker pass in which one raised the message loop receives
\* again.
C22_FailuresContained ==
    /\ task.sched.pc # "raised"
    /\ task.ws.pc # "raised"
    /\ (pass.fault /\ pass.task = "sched" /\ ~pass.active /\ gs.running)
           => task.sched.pc = "sleep"
    /\ (pass.fault /\ pass.task = "ws" /\ ~pass.active /\ ~bot.stop_signal)
           => task.ws.pc = "recv"
C22_Witness ==
    /\ pass.fault /\ pass.task = "sched" /\ ~pass.active
    /\ task.sched.pc = "sleep"
    /\ gs.pending_updates # {}


\* the opening-order placements a pass made for a side, and those of them the
\* exchange did not accept
OpenAttempts(p, side) ==
    { i \in 1..Len(p.log) : /\ p.log[i].op = "place"
                            /\ p.log[i].tag \in {"init", "hedge"}
                            /\ p.log[i].ps = Upper(side) }
FailedOpen(p, side) == \E i \in OpenAttempts(p, side) : ~p.log[i].ok

\* the side still lacks its opening order: no position and no opening order
\* of the side in the book
StillMissing(g, b, side) ==
    /\ Position(g, side) = 0
    /\ \A i \in 1..Len(b) : b[i].reduceOnly \/ b[i].positionSide # Upper(side)

\* C23: a placement that failed is not attempted a second time within the same
\* pass, and the next evaluation pass for the side, finding the order still
\* missing, attempts the placement again.  The passes looked at are those of
\* the scheduler without any position, which reach the initialization of both
\* sides.
C23_FailedPlacementRetried ==
    [][ \A side \in Sides :
          /\ Cardinality(OpenAttempts(pass', side)) <= 1
          /\ ( /\ FailedOpen(pass, side) /\ ~pass.active
               /\ pass'.task = "sched" /\ ~pass'.throttled /\ ~pass'.active
               /\ ~pass'.fault /\ pass'.risk = {}
               /\ gs'.long_position = 0 /\ gs'.short_position = 0
               /\ StillMissing(gs, book, side) )
             => OpenAttempts(pass', side) # {} ]_vars


\* the cancel requests of the pass that the exchange answered with OrderNotFound
NotFoundCancels == { i \in 1..Len(pass.log) : pass.log[i].tag = "not_found" }

\* C24: a cancel request answered with OrderNotFound is followed at once by the
\* resynchronization of the ledger (check_orders_status), the error goes no
\* further, and unless the fetch of that resynchronization raised the pass
\* goes on to its placements for the side (after the settle delay when it is a
\* hedge initialization).
C24_OrderGoneResynced ==
    \A i \in NotFoundCancels :
        /\ i < Len(pass.log)
        /\ pass.log[i + 1].op = "resync"
        /\ pass.log[i + 1].ok =>
              \/ pass.active
              \/ \E j \in (i + 2)..Len(pass.log) :
                    pass.log[j].op = "place" /\ pass.log[j].ps = pass.log[i].ps

\* C24 happens: a finished pass whose cancel request for a long order found the
\* order gone has resynchronized and then placed an order for the long side
C24_Witness ==
    /\ ~pass.active
    /\ \E i \in NotFoundCancels :
          /\ pass.log[i].ps = "LONG"
          /\ i < Len(pass.log) /\ pass.log[i + 1].op = "resync" /\ pass.log[i + 1].ok
          /\ \E j \in (i + 2)..Len(pass.log) :
                pass.log[j].op = "place" /\ pass.log[j].ps = "LONG" /\ pass.log[j].ok


\* C25: the account refresh runs at most once in any 60 s and the position
\* refresh at most once in any 30 s, however many passes run.  Two passes that
\* follow each other without a tick of the clock in between are less than
\* either interval apart, so no refresh may run in both.
C25_RefreshThrottled ==
    [][ \A r \in {"account", "positions"} :
            ~(r \in pass.refreshed /\ r \in pass'.refreshed) ]_vars


\* a pass called place_long_orders / place_short_orders for a side with a
\* position: its log has the side's take-profit order
QuotedIn(p, side) ==
    \E i \in 1..Len(p.log) : /\ p.log[i].op = "place"
                             /\ p.log[i].tag = "take_profit"
                             /\ p.log[i].ps = Upper(side)

\* the take-profit quantity the ledger counts as resting for a side
TakeProfitAggregate(g, side) ==
    IF side = "long" THEN g.sell_long_orders ELSE g.buy_short_orders

\* a take-profit order of the side rests in the book
TakeProfitResting(b, side) ==
    \E i \in 1..Len(b) : b[i].reduceOnly /\ b[i].positionSide = Upper(side)

\* C26: for a side with a position and a resting take-profit quantity, two
\* cancel-and-re-quote operations are at least MIN_ORDER_ADJUSTMENT_INTERVAL
\* apart on every evaluation path.  The book is empty at the start, so a
\* take-profit order that rests was placed by a re-quote of the side since
\* StartTime: within MIN_ORDER_ADJUSTMENT_INTERVAL of StartTime no pass
\* re-quotes such a side again.  The side is not in the emergency state when
\* the pass decides: it has a position, its take-profit order rests, the
\* ledger the pass leaves counts it (no gateway call of the pass failed, so
\* every snapshot of the pass came before the decision), and
\* need_order_update, where it was asked, saw no emergency.
C26_RequotesSpaced ==
    [][ \A side \in Sides :
            ~( /\ now - StartTime < MIN_ORDER_ADJUSTMENT_INTERVAL
               /\ Position(gs, side) > 0 /\ TakeProfitResting(book, side)
               /\ QuotedIn(pass', side)
               /\ ~pass'.fault /\ side \notin pass'.emerg
               /\ Position(gs', side) > 0 /\ TakeProfitAggregate(gs', side) > 0 ) ]_vars


\* the sides whose ORDER_FIRST_TIME cooldown has not elapsed at time t
Cooling(g, t) == { side \in Sides : t - LastOrderTime(g, side) < ORDER_FIRST_TIME }

\* C27: a pass whose hedge initialization is refused because exactly one
\* side's cooldown has not elapsed goes on to the single-side initialization:
\* it makes no opening placement for the side that is cooling and, unless a
\* gateway call of it fails, exactly one for the other side, and it ends
\* without being suspended.
C27_RefusedHedgeFallsBack ==
    [][ \A c \in Sides :
          (pass'.hedge = "refused" /\ Cooling(gs, now) = {c})
             => /\ ~pass'.active
                /\ OpenAttempts(pass', c) = {}
                /\ \A e \in Sides \ {c} :
                      ~pass'.fault =>
                          /\ Cardinality(OpenAttempts(pass', e)) = 1
                          /\ \A i \in OpenAttempts(pass', e) : pass'.log[i].tag = "init" ]_vars

\* C27 happens: a pass whose hedge initialization was refused placed the long
\* opening order and none for the short side, whose cooldown had not elapsed
C27_Witness ==
    /\ pass.hedge = "refused" /\ ~pass.fault /\ ~pass.active
    /\ OpenAttempts(pass, "short") = {}
    /\ now - gs.last_short_order_time < ORDER_FIRST_TIME
    /\ \E i \in OpenAttempts(pass, "long") : pass.log[i].tag = "init" /\ pass.log[i].ok


\* C28: for each side, two opening placements made for a zero position by the
\* initializations are at least ORDER_FIRST_TIME apart under every
\* interleaving.  last_long_order_time / last_short_order_time is the time of
\* the side's last such placement, so a pass places an opening order for a
\* side only when the stamp it finds is at least ORDER_FIRST_TIME old.
C28_OpeningsSpaced ==
    [][ \A side \in Sides :
            OpenAttempts(pass', side) # {}
                => now - LastOrderTime(gs, side) >= ORDER_FIRST_TIME ]_vars


\* the total remaining quantity of the open orders of a bucket
RECURSIVE TotalRemaining(_, _, _)
TotalRemaining(orders, side, ps) ==
    IF orders = << >> THEN 0
    ELSE (IF Head(orders).side = side /\ Head(orders).positionSide = ps
          THEN Head(orders).remaining ELSE 0)
         + TotalRemaining(Tail(orders), side, ps)

\* C29: after a snapshot each resting-order aggregate equals the total
\* remaining quantity of the open orders of its bucket, for every open-order
\* list (book is the list the snapshot fetched).
C29_AggregatesAreRemaining ==
    lastEv.o = Snapshot =>
        /\ gs.buy_long_orders = TotalRemaining(book, "buy", "LONG")
        /\ gs.sell_long_orders = TotalRemaining(book, "sell", "LONG")
        /\ gs.buy_short_orders = TotalRemaining(book, "buy", "SHORT")
        /\ gs.sell_short_orders = TotalRemaining(book, "sell", "SHORT")


\* C30: every value calculate_optimal_quantity returns, freshly computed,
\* served from the cache or the minimum of the fallback, is at least the
\* exchange's minimum order quantity, and at the price of the call it is
\* worth at least min_order_value.
C30_ReturnedQuantityTradable ==
    qc.path # "none" =>
        /\ qc.returned >= MIN_ORDER_AMOUNT
        /\ qc.returned * qc.price >= MIN_ORDER_VALUE * PRICE_TICKS_PER_UNIT

----------------------------------------------------------------------------
(* Properties of the connection manager (SpecConn)                         *)

\* min(5 * 2^(n-1), 60)
Backoff(n) == Min(INITIAL_RETRY_DELAY * Power(RETRY_MULTIPLIER, n - 1), MAX_RETRY_DELAY)

\* C31: after the n-th consecutive connection failure, 1 <= n <= max_retries,
\* the retry delay is min(5 * 2^(n-1), 60) seconds and the next attempt sleeps
\* exactly that long before it calls websockets.connect; the delay does not
\* decrease from one failure to the next and is never above 60; when an
\* attempt succeeds the retry count is 0 and the delay 5 while the connection
\* runs.
C31_BackoffSchedule ==
    [][ /\ cm'.current_retry_delay <= MAX_RETRY_DELAY
        /\ cm'.retry_count \in 1..MAX_RETRIES
               => cm'.current_retry_delay = Backoff(cm'.retry_count)
        /\ (cm.connect = "sleep" /\ cm'.connect = "dial"
                /\ cm.retry_count \in 1..MAX_RETRIES)
               => now' - now = Backoff(cm.retry_count)
        /\ cm'.retry_count = cm.retry_count + 1
               => cm'.current_retry_delay >= cm.current_retry_delay
        /\ cm'.connect = "gather"
               => /\ cm'.retry_count = 0
                  /\ cm'.current_retry_delay = INITIAL_RETRY_DELAY ]_vars

\* C31 happens: the fifth consecutive failure has set the delay to the cap of
\* 60 s and the retry has slept
C31_Witness ==
    /\ cm.retry_count = 5 /\ cm.current_retry_delay = MAX_RETRY_DELAY
    /\ cm.connect = "dial" /\ cm.state = "RECONNECTING"
    /\ now - cm.lost = MAX_RETRY_DELAY

\* C39: once the state is FAILED it stays FAILED and websockets.connect is not
\* called again.
C39_FailedIsTerminal ==
    [][ cm.state = "FAILED"
            => cm'.state = "FAILED" /\ cm'.attempts = cm.attempts ]_vars

\* C40: every call of websockets.connect but the first of the run comes at
\* least initial_retry_delay after the failure of the attempt before it or
\* the loss of the connection before it.
C40_AttemptsSpaced ==
    cm.attempts >= 2 => cm.waited >= INITIAL_RETRY_DELAY

----------------------------------------------------------------------------
(* Events enqueued while a handler runs                                    *)

\* the tasks that run handlers, and the handler a step resumes
HandlerTasks == { "sched", "run" }

C33_DriftEventuallyHandled ==
    ("check_price_drift" \in gs.pending_updates)
        ~> \/ "check_price_drift" \notin gs.pending_updates
           \/ task.sched.pc \notin {"sleep", "hedge_sleep"}

----------------------------------------------------------------------------
(* Forced reductions                                                       *)

\* the stretch p submitted the market reduce-only order of a risk review for
\* the side
ReducedIn(p, side) ==
    \E i \in 1..Len(p.log) :
        p.log[i].tag = "reduce" /\ p.log[i].ps = Upper(side) /\ p.log[i].ok

\* C34: a pass that follows a pass which submitted a forced reduction for a
\* side, without a refresh of the risk manager's position data in between or
\* in it, submits no forced reduction for that side.
C34_OneReductionPerSnapshot ==
    [][ \A side \in Sides :
            ~( /\ ReducedIn(pass, side)
               /\ ReducedIn(pass', side)
               /\ "positions" \notin pass'.refreshed
               /\ rm'.position_cache = rm.position_cache ) ]_vars

\* C35: the quantity of a forced-reduction order is at most the position it
\* reduces, for every position, every suggested ratio and every minimum
\* order amount.
C35_ReductionWithinPosition ==
    decision # NoDecision => decision.reduce_qty <= riskIn.position

----------------------------------------------------------------------------
(* Cancelling the orders of a side                                         *)

\* the cancel requests a stretch issued for orders of the side
CancelRequests(p, position_side) ==
    { i \in 1..Len(p.log) :
        /\ p.log[i].op = "cancel"
        /\ BelongsToSide([side |-> p.log[i].side, positionSide |-> p.log[i].ps,
                          reduceOnly |-> p.log[i].ro], position_side) }

\* the resting orders of the side
OrdersOfSide(b, position_side) ==
    { i \in 1..Len(b) : BelongsToSide(b[i], position_side) }

\* C36: a stretch that called cancel_orders_for_side for a side and requested
\* a cancel issued a request for every order of that side that was resting,
\* whatever the requests answered.
C36_EveryOrderOfSideCancelled ==
    [][ \A position_side \in Sides :
            CancelRequests(pass', position_side) # {}
                => Cardinality(CancelRequests(pass', position_side))
                       >= Cardinality(OrdersOfSide(book, position_side)) ]_vars

----------------------------------------------------------------------------
(* What a re-quote leaves resting                                          *)

\* every gateway call of the stretch succeeded
AllSucceeded(p) == ~p.fault /\ \A i \in 1..Len(p.log) : p.log[i].ok

\* the resting legs of a side: its reduce-only take-profit orders and its
\* opening orders
TakeProfitLegs(b, side) == { i \in OrdersOfSide(b, side) : b[i].reduceOnly }
ReentryLegs(b, side) == { i \in OrdersOfSide(b, side) : ~b[i].reduceOnly }

\* C37: when a stretch of a pass has re-quoted a side with a position (it
\* placed the side's take-profit order) and every gateway call of it
\* succeeded, exactly one take-profit order and exactly one re-entry order of
\* that side are resting, whatever passes ran or are suspended around it.
C37_RequoteLeavesOnePair ==
    [][ \A side \in Sides :
            (QuotedIn(pass', side) /\ AllSucceeded(pass') /\ Position(gs', side) > 0)
                => /\ Cardinality(TakeProfitLegs(book', side)) = 1
                   /\ Cardinality(ReentryLegs(book', side)) = 1 ]_vars

\* C37 happens: a re-quote of the long side, every call of which succeeded,
\* cancelled both legs that were resting and left one of each
C37_Witness ==
    /\ QuotedIn(pass, "long") /\ AllSucceeded(pass) /\ gs.long_position > 0
    /\ Cardinality(CancelRequests(pass, "long")) = 2
    /\ Cardinality(TakeProfitLegs(book, "long")) = 1
    /\ Cardinality(ReentryLegs(book, "long")) = 1


----------------------------------------------------------------------------
(* The ticker handler after a completed hedge initialization               *)

\* how long before the start the first ticker message came: one age inside
\* the settle window of adjust_grid_strategy and past the sync interval, one
\* past the window
SettleAgeInside == 11
SettleAgeOutside == 20

\* a gateway that answers every call of a stretch
Answering(o) ==
    /\ o.fetchFail = {} /\ o.cancelNotFound = {}
    /\ o.cancelError = {} /\ o.placeFail = {}

\* the first ticker message of an empty account at time t: the positions and
\* the orders are read, adjust_grid_strategy starts the hedge initialization
\* and completes it after the delay
FirstTickerBegun(o, t) ==
    adjust_grid_strategy_begin(
        sync_positions_and_orders(
            Machine(update_prices(GridStrategyInit, 12000, 11990, 12010, t),
                    RiskManagerInit, << >>, o, t, NoPass),
            WebSocketHandlerInit, 0, 0))

FirstTickerDone(o, t) ==
    adjust_grid_strategy_resume(
        Machine(FirstTickerBegun(o, t).gs, FirstTickerBegun(o, t).rm,
                FirstTickerBegun(o, t).book, o, t + HEDGE_INIT_DELAY, NoPass),
        t)

\* the bot at StartTime, its hedge initialization completed by the first
\* ticker message; each of the two hedge orders may have been filled since
InitSettle ==
    /\ now = StartTime
    /\ gateway = WiredGateway
    /\ \E age \in {SettleAgeInside, SettleAgeOutside},
          o \in { x \in OraclesAt(StartTime) : Answering(x) },
          filled \in SUBSET {"LONG", "SHORT"} :
          /\ FirstTickerDone(o, StartTime - age).gs.hedge_init_completed
          /\ gs = FirstTickerDone(o, StartTime - age).gs
          /\ rm = FirstTickerDone(o, StartTime - age).rm
          /\ book = SelectSeq(FirstTickerDone(o, StartTime - age).book,
                              LAMBDA order : order.positionSide \notin filled)
          /\ ws = SyncStamped(WebSocketHandlerInit, StartTime - age, TRUE)
    /\ bot = BotInit
    /\ task = [TaskInit EXCEPT !.run.pc = "monitor", !.ws.pc = "recv",
                               !.sched.pc = "sleep"]
    /\ pass = NoPass
    /\ inputs = 0
    /\ Unused

NextSettle == Tick \/ WsTicker

SpecSettle == InitSettle /\ [][NextSettle]_vars

----------------------------------------------------------------------------
(* The two sides in adjust_grid_strategy                                   *)

\* a stretch that ran adjust_grid_strategy from its start to its end, past
\* the risk block without a forced reduction and without the hedge branch
AdjustedThrough(p) ==
    /\ p.task = "ws" /\ p.kind = "adjust"
    /\ ~p.active /\ ~p.entry /\ ~p.sethedge /\ p.hedge = "none"
    /\ p.risk = {} /\ ~p.fault

\* the other side
Opposite(side) == IF side = "long" THEN "short" ELSE "long"

\* C38: a pass of adjust_grid_strategy that ran through without a forced
\* reduction re-quotes every side that has a position and whose resting
\* orders the ledger holds invalid, whatever the other side's position is:
\* the early return for a zero long side within the settle window does not
\* keep a short side from being re-quoted, nor the mirrored one a long side.
C38_SidesTreatedAlike ==
    [][ \A side \in Sides :
            ( /\ AdjustedThrough(pass')
              /\ Position(gs', side) > 0
              /\ OrdersValid(gs', side) )
                => QuotedIn(pass', side) ]_vars

=============================================================================
